---- MODULE Spec2Model ----
(***************************************************************************)
(* A model of the trader shell's contingent-order (OCO / stop) engine, its *)
(* incremental order-book maintainer and its fat-finger validator.         *)
(*                                                                         *)
(* The specifications that share this module:                              *)
(*   Spec      the contingent order store: order submission and the OCO    *)
(*             manager on the command loop, the price polling task         *)
(*             (processStopOrders) and the execution-report callback       *)
(*             (getExecType), interleaved statement by statement.          *)
(*   BookSpec  the order-book maintainer fed with a snapshot and deltas.   *)
(*   TopNSpec  GetTopNBids / GetTopNOffers applied to bounded ladders.     *)
(*   FfpSpec   the fat-finger validator applied to bounded inputs.         *)
(*   DeltaSpec the order-book maintainer fed with deltas of any channel.   *)
(*   CmdSpec   ProcessSimpleTradeInput applied to bounded command lines.   *)
(*   WsSpec    StartWebSocket / mainLoop and the goroutines reading the    *)
(*             keyboard; WsFairSpec adds the fairness of its own steps.    *)
(*   ResubSpec the order-book maintainer over successive subscriptions.    *)
(*   SliceSpec the confirmed list as a slice header and a backing array,   *)
(*             written by getExecType and the OCO manager without a lock.  *)
(*   LogonSpec StartServices, the FIX session and its callbacks;           *)
(*             LogonFairSpec adds the fairness of its own steps.           *)
(*   PollSpec  the price polling task and the price cache.                 *)
(***************************************************************************)
EXTENDS Integers, Sequences, FiniteSets, TLC

VARIABLES
    \* ---- contingent order store (package-level state) ----
    stopOrders,          \* var stopOrders []stopOrder: the confirmed list
    tempStopOrders,      \* var tempStopOrders map[clOrdId]stopOrder
    appStopOrdersMutex,  \* app.stopOrdersMutex, locked by processStopOrders
    stopOrdersMutex,     \* stopOrdersMutex, locked by getExecType
    \* ---- order submission (main command loop) ----
    spc, nextClOrdId, newOrder,
    \* ---- OCO manager (displayStopOrders, on the main command loop) ----
    mpc,                 \* "idle", or "shown": the list is printed, input awaited
    shown,               \* the contingent orders as printed, by number
    \* ---- price polling task inside processStopOrders ----
    tpc, productId, currentPrice, ti, toRemove, tj,
    tickBefore,          \* stopOrders as the tick in hand found it (history)
    \* ---- report callback inside getExecType ----
    rpc, rmsg,
    \* ---- what left the process, and history kept for the properties ----
    sentOrders,          \* order messages handed to ConstructTrade by a trigger
    cancelRequests,      \* order ids handed to CancelOrder
    dispatchCount,       \* per contingent order: number of paired dispatches
    removedCount,        \* per contingent order: removals from stopOrders
    fired,               \* the contingent orders that fired in the tick in hand
    cancelFailed,        \* those of them whose CancelOrder returned an error
    redelivered,         \* the report in hand is the one processed just before
    panicked,            \* a goroutine hit a runtime panic
    \* ---- market data subscription (StartWebSocket / mainLoop) ----
    wsState,             \* "menu" or "connected"
    isFirstMessage,      \* mainLoop's flag: the next text message is the snapshot
    depth,               \* n, the number of levels the operator asked for
    OrderBook,           \* app.OrderBook, as the handler leaves it (after display)
    sorted,              \* the ladder as the last p.sort() left it
    bookPanicked,        \* the subscription goroutine hit a runtime panic
    replaced,            \* the subscription in hand has handled one text message,
                         \* its snapshot, and app.OrderBook then held the ladder
                         \* of an earlier connection (history)
    \* ---- one call of GetTopNBids / GetTopNOffers ----
    topLevels, topN, topResult,
    \* ---- one call of validateOrderAgainstFFP ----
    priceCache,          \* var priceCache map[product]PriceData
    ffpArgs,             \* product, side, orderType, limitPrice, amount
    ffpResult,           \* "none", "accept" or "reject"
    \* ---- one call of OrderBookProcessor.ApplyUpdate ----
    deltaBook,           \* the ladder the call finds
    deltaMsg,            \* the message handed to it
    deltaResult,         \* the ladder it leaves (nil before the call)
    \* ---- one call of ProcessSimpleTradeInput ----
    cmdArgs,             \* args, the command line split at the blanks
    cmdResult,           \* what the call did
    sendErr,             \* ConstructTrade: SendToTarget returns an error, which
                         \* is logged and not handed back to the caller
    \* ---- StartWebSocket, mainLoop and the goroutines reading os.Stdin ----
    wpc,                 \* where StartWebSocket / mainLoop stands
    disconnect,          \* app.disconnect
    exitClosed,          \* exitCh of the mainLoop in hand is closed
    curScanner,          \* the stdin goroutine of the mainLoop in hand is alive
    staleScanners,       \* live stdin goroutines of mainLoops that returned
    pendingX,            \* "x" lines typed and not yet read
    dials,               \* calls of Dial so far
    lastFailure,         \* how StartWebSocket took the last error of mainLoop
    \* ---- the confirmed list as the slice its goroutines share ----
    heap,                \* the backing arrays allocated so far, each of its capacity
    hdr,                 \* the slice header of stopOrders: array (0 is nil), length
    cutPc,               \* the OCO manager inside its removal: "idle" or "moved"
    cutHdr,              \* the header its removal is about to store
    appPc,               \* getExecType inside its append: "idle" or "written"
    appHdr,              \* the header its append is about to store
    \* ---- StartServices, the FIX session and its callback goroutine ----
    svc,                 \* where StartServices stands
    session,             \* the FIX session: "down" or "up"
    opc,                 \* the callback goroutine: "idle", or "send" inside OnLogon
    logons,              \* calls of OnLogon so far
    completed,           \* calls of OnLogon that returned
    pollingTasks,        \* calls of StartPriceFetchingTask so far
    delivered,           \* application messages the venue has sent
    handled,             \* those of them handed to FromApp
    polled,              \* ticks of the polling task's ticker taken so far
    \* ---- the price polling task: one product after the other ----
    pidx,                \* 0 between ticks, else the place in products of the
                         \* product that getAndCheckPrice is called for next
    ticks,               \* ticks of the ticker taken so far
    lastErr,             \* fetchPrice returned an error for the product polled last
    evaluated            \* processStopOrders was run for the product polled last

storeVars == <<stopOrders, tempStopOrders, appStopOrdersMutex, stopOrdersMutex>>
submitVars == <<spc, nextClOrdId, newOrder, mpc, shown>>
tickVars == <<tpc, productId, currentPrice, ti, toRemove, tj, tickBefore>>
reportVars == <<rpc, rmsg>>
historyVars == <<sentOrders, cancelRequests, dispatchCount, removedCount, fired,
                 cancelFailed, redelivered, panicked>>
bookVars == <<wsState, isFirstMessage, depth, OrderBook, sorted, bookPanicked, replaced>>
topVars == <<topLevels, topN, topResult>>
ffpVars == <<priceCache, ffpArgs, ffpResult>>
deltaVars == <<deltaBook, deltaMsg, deltaResult>>
cmdVars == <<cmdArgs, cmdResult, sendErr>>
wsVars == <<wpc, disconnect, exitClosed, curScanner, staleScanners, pendingX, dials,
            lastFailure>>
sliceVars == <<heap, hdr, cutPc, cutHdr, appPc, appHdr>>
logonVars == <<svc, session, opc, logons, completed, pollingTasks, delivered, handled,
               polled>>
pollVars == <<pidx, ticks, lastErr, evaluated>>
nonStoreVars == <<bookVars, topVars, ffpVars, deltaVars, cmdVars, wsVars, sliceVars,
                  logonVars, pollVars>>
nonStoreVarsButSlice == <<bookVars, topVars, ffpVars, deltaVars, cmdVars, wsVars,
                          logonVars, pollVars>>
nonBookVars == <<storeVars, submitVars, tickVars, reportVars, historyVars, topVars, ffpVars,
                 deltaVars, cmdVars, wsVars, sliceVars, logonVars, pollVars>>
nonTopVars == <<storeVars, submitVars, tickVars, reportVars, historyVars, bookVars, ffpVars,
                deltaVars, cmdVars, wsVars, sliceVars, logonVars, pollVars>>
nonFfpVars == <<storeVars, submitVars, tickVars, reportVars, historyVars, bookVars, topVars,
                deltaVars, cmdVars, wsVars, sliceVars, logonVars, pollVars>>
nonDeltaVars == <<storeVars, submitVars, tickVars, reportVars, historyVars, bookVars,
                  topVars, ffpVars, cmdVars, wsVars, sliceVars, logonVars, pollVars>>
nonCmdVars == <<storeVars, submitVars, tickVars, reportVars, historyVars, bookVars,
                topVars, ffpArgs, ffpResult, deltaVars, wsVars, sliceVars, logonVars,
                pollVars>>
nonWsVars == <<storeVars, submitVars, tickVars, reportVars, historyVars, bookVars,
               topVars, ffpVars, deltaVars, cmdVars, sliceVars, logonVars, pollVars>>
nonLogonVars == <<storeVars, submitVars, tickVars, reportVars, historyVars, bookVars,
                  topVars, ffpVars, deltaVars, cmdVars, wsVars, sliceVars, pollVars>>
nonPollVars == <<storeVars, submitVars, tickVars, reportVars, historyVars, bookVars,
                 topVars, deltaVars, cmdVars, wsVars, sliceVars, logonVars>>
vars == <<storeVars, submitVars, tickVars, reportVars, historyVars, bookVars, topVars,
          ffpVars, deltaVars, cmdVars, wsVars, sliceVars, logonVars, pollVars>>

----------------------------------------------------------------------------
(* Bounds of the model. *)
MaxOrders == 2
MaxDispatch == 2
MaxStop == 1

(* Program constants. *)
TradeSideBuy == "BUY"
TradeSideSell == "SELL"
TradeTypeMarket == "MARKET"
TradeTypeLimit == "LIMIT"
FixExecFill == "Fill"
FixExecCanceled == "Canceled"
supportedProducts == {"ETH-USD", "LTC-USD"}

Sides == {TradeSideBuy, TradeSideSell}
StopPrices == 1..MaxStop
TickPrices == 0..(MaxStop + 1)
ClOrdIds == 1..MaxOrders

(* The base quantity typed for the c-th order; the store copies it and     *)
(* never branches on it, so one quantity per order is enough to tell the   *)
(* orders' quantities apart.                                               *)
BaseQuantityOf(c) == IF c % 2 = 1 THEN "0.001" ELSE "15"

(* Client order ids are the uuids of CreateHeader, numbered in the order    *)
(* they are drawn.  The venue answers the order sent as clOrdId c with     *)
(* venue order id VenueOrderId(c).  NoOrderId is the empty PlacedOrderId   *)
(* of an order not yet correlated; ForeignClOrdId is the id of an order    *)
(* the store never held (a market order, or one from another session).    *)
NoOrderId == 0
ForeignClOrdId == MaxOrders + 1
VenueOrderId(c) == c

(* execTypeDescriptions, for the codes the model delivers ("Z" is absent   *)
(* from the map).                                                          *)
ExecCodes == {"0", "2", "4", "Z"}
execTypeDescriptions ==
    [code \in {"0", "1", "2", "4", "8"} |->
        CASE code = "0" -> "ExecType_NEW"
          [] code = "1" -> "ExecType_PARTIAL_FILL"
          [] code = "2" -> "ExecType_FILL"
          [] code = "4" -> "ExecType_CANCELED"
          [] code = "8" -> "ExecType_REJECTED"]

execTypeDescription(code) ==
    IF code \in DOMAIN execTypeDescriptions THEN execTypeDescriptions[code]
    ELSE "Unknown"

----------------------------------------------------------------------------
(* Helpers of the store. *)

\* oco.go orderExistsInStopOrders
orderExistsInStopOrders(orders, orderId) ==
    \E i \in 1..Len(orders) : orders[i].PlacedOrderId = orderId

\* oco.go findOrderIndexById: the Go (0-based) index of the first match, -1 if none
findOrderIndexById(orders, orderId) ==
    IF \E i \in 1..Len(orders) : orders[i].PlacedOrderId = orderId
    THEN (CHOOSE i \in 1..Len(orders) :
            /\ orders[i].PlacedOrderId = orderId
            /\ \A k \in 1..(i - 1) : orders[k].PlacedOrderId # orderId) - 1
    ELSE -1

\* append(s[:index], s[index+1:]...) for a Go index known to be in range
RemoveAt(orders, index) ==
    SubSeq(orders, 1, index) \o SubSeq(orders, index + 2, Len(orders))

\* price.go removeStopOrder: out-of-range indices are logged and ignored
removeStopOrder(orders, index) ==
    IF index < 0 \/ index >= Len(orders) THEN orders ELSE RemoveAt(orders, index)

\* trade.go setOrderType: the FIX OrdType the message ends up with
setOrderType(orderType) ==
    IF orderType = TradeTypeMarket THEN "1"
    ELSE IF orderType = TradeTypeLimit THEN "2"
    ELSE "unset"

\* price.go executeStopBuyOco: the order message built for a fired buy stop
executeStopBuyOco(order) ==
    [Product |-> order.Product, OrdType |-> setOrderType(TradeTypeMarket),
     Side |-> order.Side, BaseQuantity |-> order.BaseQuantity, cid |-> order.cid]

\* price.go executeStopSellOco: tradeParams carries no OrderType
executeStopSellOco(order) ==
    [Product |-> order.Product, OrdType |-> setOrderType(""),
     Side |-> order.Side, BaseQuantity |-> order.BaseQuantity, cid |-> order.cid]

\* the trigger condition with the comparisons made strict
Fires_Strict(order, price) ==
    \/ order.Side = TradeSideBuy /\ price > order.StopPrice
    \/ order.Side = TradeSideSell /\ price < order.StopPrice

\* price.go processStopOrders, the trigger condition of lines 217 and 221
Fires(order, price) ==
    \/ order.Side = TradeSideBuy /\ price >= order.StopPrice
    \/ order.Side = TradeSideSell /\ price <= order.StopPrice

Bump(f, c) == [f EXCEPT ![c] = @ + 1]

\* the provisional entry left in the map after its promotion
delete_Kept(m, key) == m

\* delete(tempStopOrders, clOrdIdField)
delete(m, key) == [c \in DOMAIN m \ {key} |-> m[c]]

\* the confirmed list rebuilt from the promoted order alone
append_Replacing(orders, tempOrder) == <<tempOrder>>

\* stopOrders = append(stopOrders, tempOrder)
append(orders, tempOrder) == Append(orders, tempOrder)

\* the numbered rows printStopOrders prints, by client order id
printStopOrders(orders) == [i \in 1..Len(orders) |-> orders[i].cid]

----------------------------------------------------------------------------
(* The order-book maintainer (OrderBookProcessor).                         *)
(*                                                                         *)
(* Prices and quantities arrive as decimal strings and are parsed by       *)
(* strconv.ParseFloat; ParseFloat below gives the float64 of each string   *)
(* the model feeds ("100" and "100.0" are two texts of one number, "x" is  *)
(* not a number).                                                          *)

PxStrings == {"100", "100.0", "101"}
QtyStrings == {"0", "2", "3"}
SideTags == {"bid", "offer"}

ParseFloat(str) ==
    CASE str = "100"   -> [ok |-> TRUE, val |-> 100]
      [] str = "100.0" -> [ok |-> TRUE, val |-> 100]
      [] str = "101"   -> [ok |-> TRUE, val |-> 101]
      [] str = "0"     -> [ok |-> TRUE, val |-> 0]
      [] str = "2"     -> [ok |-> TRUE, val |-> 2]
      [] str = "3"     -> [ok |-> TRUE, val |-> 3]
      [] OTHER         -> [ok |-> FALSE, val |-> 0]

\* levelFromJSON
levelFromJSON(l) ==
    LET px == ParseFloat(l.px)
        qty == ParseFloat(l.qty) IN
    IF ~px.ok \/ ~qty.ok
    THEN [ok |-> FALSE, level |-> [Side |-> l.side, Px |-> 0, Qty |-> 0]]
    ELSE [ok |-> TRUE, level |-> [Side |-> l.side, Px |-> px.val, Qty |-> qty.val]]

\* sort.Slice on a short slice is an insertion sort: an element moves left
\* while less(element, left neighbour)
RECURSIVE InsertLevel(_, _, _)
InsertLevel(s, x, descending) ==
    IF s = <<>> THEN <<x>>
    ELSE LET last == s[Len(s)] IN
         IF (IF descending THEN x.Px > last.Px ELSE x.Px < last.Px)
         THEN Append(InsertLevel(SubSeq(s, 1, Len(s) - 1), x, descending), last)
         ELSE Append(s, x)

RECURSIVE SortLevels(_, _)
SortLevels(s, descending) ==
    IF s = <<>> THEN <<>>
    ELSE InsertLevel(SortLevels(SubSeq(s, 1, Len(s) - 1), descending), s[Len(s)],
                     descending)

\* OrderBookProcessor.sort: bids descending, offers ascending
sort(p) ==
    [p EXCEPT !.Bids = SortLevels(p.Bids, TRUE), !.Offers = SortLevels(p.Offers, FALSE)]

\* filterZeroQty
filterZeroQty(levels) == SelectSeq(levels, LAMBDA level : level.Qty > 0)

\* OrderBookProcessor.filterClosed
filterClosed(p) ==
    [p EXCEPT !.Bids = filterZeroQty(p.Bids), !.Offers = filterZeroQty(p.Offers)]

\* the upsert loop of apply, on one side
Upsert(target, level) ==
    IF \E i \in 1..Len(target) : target[i].Px = level.Px
    THEN LET i == CHOOSE i \in 1..Len(target) :
                     /\ target[i].Px = level.Px
                     /\ \A k \in 1..(i - 1) : target[k].Px # level.Px IN
         [target EXCEPT ![i] = level]
    ELSE Append(target, level)

\* OrderBookProcessor.apply
apply(p, levelJSON) ==
    LET r == levelFromJSON(levelJSON) IN
    IF ~r.ok THEN p
    ELSE IF r.level.Side = "offer" THEN [p EXCEPT !.Offers = Upsert(p.Offers, r.level)]
    ELSE IF r.level.Side # "bid" THEN p
    ELSE [p EXCEPT !.Bids = Upsert(p.Bids, r.level)]

RECURSIVE ApplyAll(_, _)
ApplyAll(p, updates) ==
    IF updates = <<>> THEN p
    ELSE ApplyAll(apply(p, Head(updates)), Tail(updates))

\* ApplyUpdate without the test of the channel tag
ApplyUpdate_AnyChannel(p, msg) ==
    IF ~msg.json THEN p
    ELSE sort(filterClosed(ApplyAll(p, msg.Updates)))

\* OrderBookProcessor.ApplyUpdate on a processor that is not nil
ApplyUpdate(p, msg) ==
    IF ~msg.json THEN p
    ELSE IF msg.Channel # "l2_data" THEN p
    ELSE sort(filterClosed(ApplyAll(p, msg.Updates)))

\* the partition loop of NewOrderBookProcessor
RECURSIVE Partition(_, _)
Partition(p, updates) ==
    IF updates = <<>> THEN p
    ELSE LET r == levelFromJSON(Head(updates))
             q == IF ~r.ok THEN p
                  ELSE IF r.level.Side = "bid"
                       THEN [p EXCEPT !.Bids = Append(p.Bids, r.level)]
                  ELSE IF r.level.Side = "offer"
                       THEN [p EXCEPT !.Offers = Append(p.Offers, r.level)]
                  ELSE p IN
         Partition(q, Tail(updates))

NilBook == [nil |-> TRUE, Bids |-> <<>>, Offers |-> <<>>]
EmptyBook == [nil |-> FALSE, Bids |-> <<>>, Offers |-> <<>>]

\* NewOrderBookProcessor: nil when the snapshot is not JSON
NewOrderBookProcessor(msg) ==
    IF ~msg.json THEN NilBook
    ELSE sort(Partition(EmptyBook, msg.Updates))

\* GetTopN with the slice taken one entry too long
GetTopN_OneTooMany(levels, n) ==
    IF n >= Len(levels) THEN [panic |-> FALSE, levels |-> levels]
    ELSE IF n < 0 THEN [panic |-> TRUE, levels |-> <<>>]
    ELSE [panic |-> FALSE, levels |-> SubSeq(levels, 1, n + 1)]

\* GetTopNBids / GetTopNOffers on one side's levels: p.X[:n] panics for n < 0
GetTopN(levels, n) ==
    IF n > Len(levels) THEN [panic |-> FALSE, levels |-> levels]
    ELSE IF n < 0 THEN [panic |-> TRUE, levels |-> <<>>]
    ELSE [panic |-> FALSE, levels |-> SubSeq(levels, 1, n)]

GetTopNBids(p, n) == GetTopN(p.Bids, n)
GetTopNOffers(p, n) == GetTopN(p.Offers, n)

Reverse(s) == [i \in 1..Len(s) |-> s[Len(s) + 1 - i]]

\* displayOrderBook: topOffers shares p.Offers' array and is reversed in place
displayOrderBook(p, n) ==
    LET k == Len(GetTopNOffers(p, n).levels) IN
    [p EXCEPT !.Offers = Reverse(SubSeq(p.Offers, 1, k)) \o
                         SubSeq(p.Offers, k + 1, Len(p.Offers))]

(* The messages of the feed: text that is not JSON, or a channel tag and   *)
(* the level updates of its events, in order.                              *)
MaxUpdates == 2
MaxDepthAsked == 2

LevelJSONs ==
    [side : SideTags, px : PxStrings, qty : QtyStrings] \cup
    {[side |-> "bid", px |-> "x", qty |-> "2"], [side |-> "mid", px |-> "100", qty |-> "2"]}
UpdateLists(n) == UNION {[1..k -> LevelJSONs] : k \in 0..n}
Garbage == [json |-> FALSE, Channel |-> "", Updates |-> <<>>]
FeedMessages ==
    {Garbage} \cup
    [json : {TRUE}, Channel : {"l2_data"}, Updates : UpdateLists(MaxUpdates)] \cup
    [json : {TRUE}, Channel : {"heartbeats"}, Updates : UpdateLists(1)]

BookIdle ==
    /\ wsState = "menu" /\ isFirstMessage = TRUE /\ depth = 0
    /\ OrderBook = NilBook /\ sorted = NilBook /\ bookPanicked = FALSE
    /\ replaced = FALSE

\* MarketDataMode validated n; StartWebSocket -> mainLoop subscribes
StartWebSocket(n) ==
    /\ wsState = "menu" /\ ~bookPanicked
    /\ wsState' = "connected"
    /\ isFirstMessage' = TRUE
    /\ depth' = n
    /\ replaced' = FALSE
    /\ UNCHANGED <<OrderBook, sorted, bookPanicked, nonBookVars>>

\* mainLoop returned an error and StartWebSocket calls it again
Reconnect ==
    /\ wsState = "connected" /\ ~bookPanicked
    /\ isFirstMessage' = TRUE
    /\ replaced' = FALSE
    /\ UNCHANGED <<wsState, depth, OrderBook, sorted, bookPanicked, nonBookVars>>

\* the operator typed x: StartWebSocket returns to the menu
Disconnect ==
    /\ wsState = "connected" /\ ~bookPanicked
    /\ wsState' = "menu"
    /\ replaced' = FALSE
    /\ UNCHANGED <<isFirstMessage, depth, OrderBook, sorted, bookPanicked, nonBookVars>>

\* the snapshot handler, were it to add the snapshot's levels to the ladder
\* that app.OrderBook holds instead of building a new processor
RecvSnapshot_Merging(msg) ==
    /\ wsState = "connected" /\ ~bookPanicked
    /\ isFirstMessage
    /\ isFirstMessage' = FALSE
    /\ replaced' = ~OrderBook.nil
    /\ LET p == IF ~msg.json THEN NilBook
                ELSE sort(Partition([OrderBook EXCEPT !.nil = FALSE], msg.Updates)) IN
       IF p.nil
       THEN /\ OrderBook' = p
            /\ bookPanicked' = TRUE
            /\ UNCHANGED sorted
       ELSE /\ sorted' = p
            /\ OrderBook' = displayOrderBook(p, depth)
            /\ UNCHANGED bookPanicked
    /\ UNCHANGED <<wsState, depth, nonBookVars>>

\* mainLoop, a text message while isFirstMessage: the snapshot, then the display
RecvSnapshot(msg) ==
    /\ wsState = "connected" /\ ~bookPanicked
    /\ isFirstMessage
    /\ isFirstMessage' = FALSE
    /\ replaced' = ~OrderBook.nil
    /\ LET p == NewOrderBookProcessor(msg) IN
       IF p.nil
       THEN \* displayOrderBook dereferences the nil processor
            /\ OrderBook' = p
            /\ bookPanicked' = TRUE
            /\ UNCHANGED sorted
       ELSE /\ sorted' = p
            /\ OrderBook' = displayOrderBook(p, depth)
            /\ UNCHANGED bookPanicked
    /\ UNCHANGED <<wsState, depth, nonBookVars>>

\* mainLoop, a later text message: ApplyUpdate, then the display
RecvDelta(msg) ==
    /\ wsState = "connected" /\ ~bookPanicked
    /\ ~isFirstMessage
    /\ LET p == ApplyUpdate(OrderBook, msg) IN
       /\ OrderBook' = displayOrderBook(p, depth)
       /\ sorted' = IF msg.json /\ msg.Channel = "l2_data" THEN p ELSE sorted
    /\ replaced' = FALSE
    /\ UNCHANGED <<wsState, isFirstMessage, depth, bookPanicked, nonBookVars>>

BookNext ==
    \/ \E n \in 1..MaxDepthAsked : StartWebSocket(n)
    \/ Reconnect
    \/ Disconnect
    \/ \E msg \in FeedMessages : RecvSnapshot(msg)
    \/ \E msg \in FeedMessages : RecvDelta(msg)

(* The same subscription fed with messages of fewer different levels, for  *)
(* the properties that compare a step with every message of the feed.     *)
ShortLevelJSONs == [side : SideTags, px : {"100", "101"}, qty : {"0", "2"}]
ShortFeedMessages ==
    {Garbage} \cup
    [json : {TRUE}, Channel : {"l2_data"},
     Updates : UNION {[1..k -> ShortLevelJSONs] : k \in 0..MaxUpdates}] \cup
    [json : {TRUE}, Channel : {"heartbeats"}, Updates : {<<>>}]

ResubNext ==
    \/ \E n \in 1..MaxDepthAsked : StartWebSocket(n)
    \/ Reconnect
    \/ Disconnect
    \/ \E msg \in ShortFeedMessages : RecvSnapshot(msg)
    \/ \E msg \in ShortFeedMessages : RecvDelta(msg)

----------------------------------------------------------------------------
(* One call of GetTopNBids / GetTopNOffers on a ladder side of any length  *)
(* with any argument.                                                      *)
MaxLevels == 10
MaxDepth == 9

LevelsOfLength(k, side) ==
    [i \in 1..k |-> [Side |-> side,
                     Px |-> IF side = "bid" THEN 100 - i ELSE 100 + i,
                     Qty |-> 1]]

TopIdle ==
    /\ topLevels = <<>> /\ topN = 0
    /\ topResult = [called |-> FALSE, panic |-> FALSE, levels |-> <<>>]

TopInit ==
    /\ \E k \in 0..MaxLevels, side \in {"bid", "offer"} : topLevels = LevelsOfLength(k, side)
    /\ topN \in (0 - 2)..(MaxLevels + 2)
    /\ topResult = [called |-> FALSE, panic |-> FALSE, levels |-> <<>>]

CallGetTopN ==
    /\ ~topResult.called
    /\ LET r == GetTopN(topLevels, topN) IN
       topResult' = [called |-> TRUE, panic |-> r.panic, levels |-> r.levels]
    /\ UNCHANGED <<topLevels, topN, nonTopVars>>

TopNext == CallGetTopN

----------------------------------------------------------------------------
(* The fat-finger validator (validateOrderAgainstFFP).                     *)
(*                                                                         *)
(* A decimal.Decimal is modelled exactly, as an integer number of          *)
(* hundredths; DecimalFromString gives the decimal of each string the      *)
(* model feeds ("100" and "100.00" are two texts of one number, "n/a" and  *)
(* "bad" are not numbers).  The amount is a whole number of base units.    *)

MaxOrderSize == 50000
BuyPriceMultiplier == 105
SellPriceMultiplier == 95

DecimalFromString(str) ==
    CASE str = "94.99"  -> [ok |-> TRUE, val |-> 9499]
      [] str = "95"     -> [ok |-> TRUE, val |-> 9500]
      [] str = "100"    -> [ok |-> TRUE, val |-> 10000]
      [] str = "100.00" -> [ok |-> TRUE, val |-> 10000]
      [] str = "105"    -> [ok |-> TRUE, val |-> 10500]
      [] str = "105.01" -> [ok |-> TRUE, val |-> 10501]
      [] str = "2"      -> [ok |-> TRUE, val |-> 200]
      [] str = "200"    -> [ok |-> TRUE, val |-> 20000]
      [] OTHER          -> [ok |-> FALSE, val |-> 0]

CachedStrings == {"100", "100.00", "200", "n/a"}
LimitStrings == {"94.99", "95", "100", "105", "105.01", "bad"}
Amounts == {250, 251, 500, 501}
FfpProducts == {"ETH-USD", "BTC-USD"}

\* the switch on side with the cached bid and ask swapped
bestPriceString_Swapped(priceData, side) ==
    IF side = TradeSideBuy THEN priceData.Ask ELSE priceData.Bid

\* the switch on side: the cached bid for a buy, the cached ask for a sell
bestPriceString(priceData, side) ==
    IF side = TradeSideBuy THEN priceData.Bid ELSE priceData.Ask

\* the multiplier of the side, in hundredths
multiplier(side) ==
    IF side = TradeSideBuy THEN BuyPriceMultiplier ELSE SellPriceMultiplier

\* spend.GreaterThan(app.MaxOrderSize), spend = bestPrice.Mul(amountDecimal);
\* bestPrice is in hundredths
exceedsMaxOrderSize(bestPrice, amount) == bestPrice * amount > MaxOrderSize * 100

\* the price test with the bound itself rejected
deviates_AtBound(side, limitPrice, bestPrice) ==
    \/ side = TradeSideBuy /\ limitPrice * 100 >= bestPrice * multiplier(side)
    \/ side = TradeSideSell /\ limitPrice * 100 =< bestPrice * multiplier(side)

\* limitPriceDecimal.GreaterThan(maxLimPrice) for a buy, LessThan for a sell,
\* maxLimPrice = bestPrice.Mul(multiplier); both sides scaled by 100
deviates(side, limitPrice, bestPrice) ==
    \/ side = TradeSideBuy /\ limitPrice * 100 > bestPrice * multiplier(side)
    \/ side = TradeSideSell /\ limitPrice * 100 < bestPrice * multiplier(side)

\* the validator failing closed on a product without a cached price
validateOrderAgainstFFP_FailClosed(cache, product, side, orderType, limitPrice, amount) ==
    IF product \notin DOMAIN cache THEN FALSE
    ELSE LET best == DecimalFromString(bestPriceString(cache[product], side)) IN
         IF ~best.ok THEN FALSE
         ELSE IF exceedsMaxOrderSize(best.val, amount) THEN FALSE
         ELSE IF orderType = TradeTypeLimit
              THEN LET limit == DecimalFromString(limitPrice) IN
                   IF ~limit.ok THEN FALSE
                   ELSE ~deviates(side, limit.val, best.val)
              ELSE TRUE

\* validateOrderAgainstFFP: TRUE lets the order through
validateOrderAgainstFFP(cache, product, side, orderType, limitPrice, amount) ==
    IF product \notin DOMAIN cache THEN TRUE
    ELSE LET best == DecimalFromString(bestPriceString(cache[product], side)) IN
         IF ~best.ok THEN FALSE
         ELSE IF exceedsMaxOrderSize(best.val, amount) THEN FALSE
         ELSE IF orderType = TradeTypeLimit
              THEN LET limit == DecimalFromString(limitPrice) IN
                   IF ~limit.ok THEN FALSE
                   ELSE ~deviates(side, limit.val, best.val)
              ELSE TRUE

FfpIdle ==
    /\ priceCache = <<>>
    /\ ffpArgs = [product |-> "", side |-> "", orderType |-> "", limitPrice |-> "",
                  amount |-> 0]
    /\ ffpResult = "none"

PriceCaches ==
    {<<>>} \cup {("ETH-USD" :> [Bid |-> b, Ask |-> a]) : b \in CachedStrings, a \in CachedStrings}

FfpInit ==
    /\ priceCache \in PriceCaches
    /\ ffpArgs \in [product : FfpProducts, side : Sides,
                    orderType : {TradeTypeMarket, TradeTypeLimit},
                    limitPrice : LimitStrings, amount : Amounts]
    /\ ffpResult = "none"

\* ProcessSimpleTradeInput calls the validator once per command
Validate ==
    /\ ffpResult = "none"
    /\ ffpArgs.product # ""
    /\ ffpResult' =
          IF validateOrderAgainstFFP(priceCache, ffpArgs.product, ffpArgs.side,
                                     ffpArgs.orderType, ffpArgs.limitPrice,
                                     ffpArgs.amount)
          THEN "accept" ELSE "reject"
    /\ UNCHANGED <<priceCache, ffpArgs, nonFfpVars>>

FfpNext == Validate

----------------------------------------------------------------------------
(* One call of ProcessSimpleTradeInput: tradeInputMode splits the line the *)
(* operator typed at the blanks and hands over the tokens.                 *)

ArgMarket == "mkt"
ArgLimit == "lim"
ArgBuy == "b"
ArgSell == "s"
MinRequiredArgs == 4

\* strings.ToUpper on the tokens the model feeds
ToUpper(str) ==
    CASE str = "eth-usd" -> "ETH-USD"
      [] str = "mkt"     -> "MKT"
      [] str = "lim"     -> "LIM"
      [] str = "foo"     -> "FOO"
      [] str = "b"       -> "B"
      [] str = "s"       -> "S"
      [] str = "q"       -> "Q"
      [] str = "h"       -> "H"
      [] str = "abc"     -> "ABC"
      [] str = "bad"     -> "BAD"
      [] str = "-p"      -> "-P"
      [] str = "-oco"    -> "-OCO"
      [] OTHER           -> str

\* trade.go getTradeType
getTradeType(arg) == IF arg = ArgMarket THEN TradeTypeMarket ELSE TradeTypeLimit

\* trade.go getTradeSide
getTradeSide(arg) == IF arg = ArgBuy THEN TradeSideBuy ELSE TradeSideSell

\* append(args[:i], args[i+n:]...) for a Go index i with i+n <= len(args)
Cut(args, i, n) == SubSeq(args, 1, i) \o SubSeq(args, i + n + 1, Len(args))

\* the flag-stripping loop: for i := 0; i < len(args); { switch args[i] ... i++ }
\* exit is "done" when the loop ended, "return" and "help" for the returns
\* inside it, "panic" when args[i] was read with i < 0
RECURSIVE stripFlags(_)
stripFlags(st) ==
    IF ~(st.i < Len(st.args)) THEN [st EXCEPT !.exit = "done"]
    ELSE IF st.i < 0 THEN [st EXCEPT !.exit = "panic"]
    ELSE LET arg == st.args[st.i + 1]
             nx == [st EXCEPT !.steps = @ + 1] IN
         IF arg = "-p"
         THEN stripFlags([nx EXCEPT !.isPreview = TRUE,
                                    !.args = Cut(st.args, st.i, 1),
                                    !.i = (st.i - 1) + 1])
         ELSE IF arg = "-oco"
         THEN IF st.i + 1 < Len(st.args)
              THEN LET price == DecimalFromString(st.args[st.i + 2]) IN
                   IF ~price.ok
                   THEN [nx EXCEPT !.isOco = TRUE, !.exit = "return"]
                   ELSE stripFlags([nx EXCEPT !.isOco = TRUE,
                                              !.ocoPrice = price.val,
                                              !.args = Cut(st.args, st.i, 2),
                                              !.i = (st.i - 2) + 1])
              ELSE [nx EXCEPT !.isOco = TRUE, !.exit = "return"]
         ELSE IF arg = "h"
         THEN [nx EXCEPT !.exit = "help"]
         ELSE stripFlags([nx EXCEPT !.i = st.i + 1])

\* trade.go parseArgs, called with len(args) >= MinRequiredArgs
parseArgs(args) ==
    LET params == [Product |-> ToUpper(args[1]), OrderType |-> getTradeType(args[2]),
                   Side |-> getTradeSide(args[3]), BaseQuantity |-> args[4]] IN
    IF params.OrderType = TradeTypeLimit
    THEN IF Len(args) <= 4
         THEN [err |-> TRUE, params |-> params, limitPrice |-> ""]
         ELSE [err |-> FALSE, params |-> [params EXCEPT !.BaseQuantity = args[5]],
               limitPrice |-> args[4]]
    ELSE [err |-> FALSE, params |-> params, limitPrice |-> ""]

NoParams == [Product |-> "", OrderType |-> "", Side |-> "", BaseQuantity |-> ""]
Outcome(what, st, params, limitPrice, provisional) ==
    [outcome |-> what, steps |-> st.steps, params |-> params,
     limitPrice |-> limitPrice, provisional |-> provisional, ocoPrice |-> st.ocoPrice]

\* ProcessSimpleTradeInput after the flag-stripping loop ended
afterFlags(st, cache) ==
    IF st.isPreview /\ st.isOco THEN Outcome("rejected", st, NoParams, "", FALSE)
    ELSE IF Len(st.args) < MinRequiredArgs THEN Outcome("rejected", st, NoParams, "", FALSE)
    ELSE LET parsed == parseArgs(st.args)
             params == parsed.params IN
         IF parsed.err THEN Outcome("rejected", st, NoParams, "", FALSE)
         ELSE IF st.isOco /\ params.OrderType # TradeTypeLimit
         THEN Outcome("rejected", st, NoParams, "", FALSE)
         ELSE LET limit == IF params.OrderType # TradeTypeMarket
                           THEN DecimalFromString(parsed.limitPrice)
                           ELSE [ok |-> TRUE, val |-> 0]
                  limitPriceStr == IF params.OrderType # TradeTypeMarket
                                   THEN parsed.limitPrice ELSE ""
                  amount == ParseFloat(params.BaseQuantity) IN
              IF ~limit.ok THEN Outcome("rejected", st, NoParams, "", FALSE)
              ELSE IF ~amount.ok THEN Outcome("rejected", st, NoParams, "", FALSE)
              ELSE IF st.isOco /\
                      (\/ params.Side = ArgBuy /\ st.ocoPrice <= limit.val
                       \/ params.Side = ArgSell /\ st.ocoPrice >= limit.val)
              THEN Outcome("rejected", st, NoParams, "", FALSE)
              ELSE IF ~validateOrderAgainstFFP(cache, params.Product, params.Side,
                                               params.OrderType, limitPriceStr,
                                               amount.val)
              THEN Outcome("rejected", st, NoParams, "", FALSE)
              ELSE IF st.isPreview
              THEN Outcome("previewed", st, params, limitPriceStr, FALSE)
              ELSE Outcome("sent", st, params, limitPriceStr, st.isOco)

\* ProcessSimpleTradeInput
ProcessSimpleTradeInput(args, cache) ==
    LET st == stripFlags([args |-> args, i |-> 0, isPreview |-> FALSE, isOco |-> FALSE,
                          ocoPrice |-> 0, exit |-> "", steps |-> 0]) IN
    IF st.exit = "panic" THEN Outcome("panic", st, NoParams, "", FALSE)
    ELSE IF st.exit = "help" THEN Outcome("help", st, NoParams, "", FALSE)
    ELSE IF st.exit = "return" THEN Outcome("rejected", st, NoParams, "", FALSE)
    ELSE afterFlags(st, cache)

(* The command lines of the model: the commands below, each as it is and   *)
(* with one or two of the flag groups put in at any position.              *)
MaxFlagGroups == 2

BaseCommands ==
    { <<"eth-usd", "mkt", "b", "2">>,
      <<"eth-usd", "lim", "b", "100", "2">>,
      <<"eth-usd", "lim", "s", "100", "2">>,
      <<"eth-usd", "lim", "b", "105.01", "2">>,
      <<"eth-usd", "lim", "b", "bad", "2">>,
      <<"eth-usd", "lim", "b", "100", "abc">>,
      <<"eth-usd", "lim", "b", "2">>,
      <<"eth-usd", "mkt", "b">>,
      <<"eth-usd", "foo", "b", "100", "2">>,
      <<"eth-usd", "mkt", "q", "2">>,
      <<"">> }
FlagGroups == { <<"-p">>, <<"-oco", "105">>, <<"-oco", "95">>, <<"-oco">>, <<"h">> }

InsertAt(args, pos, group) ==
    SubSeq(args, 1, pos) \o group \o SubSeq(args, pos + 1, Len(args))

RECURSIVE WithFlags(_)
WithFlags(k) ==
    IF k = 0 THEN BaseCommands
    ELSE LET fewer == WithFlags(k - 1) IN
         fewer \cup UNION {{InsertAt(args, pos, group) :
                                pos \in 0..Len(args), group \in FlagGroups} :
                             args \in fewer}

CommandLines == WithFlags(MaxFlagGroups)

NoOutcome == [outcome |-> "none", steps |-> 0, params |-> NoParams, limitPrice |-> "",
              provisional |-> FALSE, ocoPrice |-> 0]

CmdIdle == cmdArgs = <<>> /\ cmdResult = NoOutcome /\ sendErr = FALSE

CmdInit ==
    /\ cmdArgs \in CommandLines
    /\ cmdResult = NoOutcome
    /\ sendErr \in BOOLEAN
    /\ priceCache \in {<<>>, ("ETH-USD" :> [Bid |-> "100", Ask |-> "100"])}
    /\ ffpArgs = [product |-> "", side |-> "", orderType |-> "", limitPrice |-> "",
                  amount |-> 0]
    /\ ffpResult = "none"

\* tradeInputMode: app.ProcessSimpleTradeInput(args)
ProcessCommand ==
    /\ cmdArgs # <<>> /\ cmdResult.outcome = "none"
    /\ cmdResult' = ProcessSimpleTradeInput(cmdArgs, priceCache)
    /\ UNCHANGED <<cmdArgs, sendErr, priceCache, nonCmdVars>>

CmdNext == ProcessCommand

----------------------------------------------------------------------------
(* The subscription loop: StartWebSocket calls mainLoop until the operator *)
(* has disconnected.  Each mainLoop that got as far as its subscription    *)
(* starts a goroutine that reads os.Stdin for the operator's x; when       *)
(* mainLoop returns on an error that goroutine stays behind, blocked in    *)
(* its read.  The content of the feed is left out here.                    *)
MaxDials == 3
MaxKeys == 2

WsIdle ==
    /\ wpc = "menu" /\ disconnect = FALSE /\ exitClosed = FALSE
    /\ curScanner = FALSE /\ staleScanners = 0 /\ pendingX = 0
    /\ dials = 0 /\ lastFailure = "none"

\* the error branch with the disconnect flag left unread
afterError_AlwaysRetry(disconnected) == "sleep"

\* if err != nil { <-doneCh; if app.disconnect { return }; ...; time.Sleep(...) }
afterError(disconnected) == IF disconnected THEN "menu" ELSE "sleep"

\* MarketDataMode calls StartWebSocket: app.disconnect = false
EnterStartWebSocket ==
    /\ wpc = "menu" /\ dials < MaxDials
    /\ disconnect' = FALSE
    /\ wpc' = "dial"
    /\ UNCHANGED <<exitClosed, curScanner, staleScanners, pendingX, dials, lastFailure,
                   nonWsVars>>

\* mainLoop: websocket.DefaultDialer.Dial
Dial(ok) ==
    /\ wpc = "dial" /\ dials < MaxDials
    /\ dials' = dials + 1
    /\ wpc' = IF ok THEN "write" ELSE "failed"
    /\ UNCHANGED <<disconnect, exitClosed, curScanner, staleScanners, pendingX,
                   lastFailure, nonWsVars>>

\* mainLoop: c.WriteMessage(authMessage), then exitCh and the stdin goroutine
WriteAuth(ok) ==
    /\ wpc = "write"
    /\ IF ok
       THEN wpc' = "select" /\ exitClosed' = FALSE /\ curScanner' = TRUE
       ELSE wpc' = "failed" /\ UNCHANGED <<exitClosed, curScanner>>
    /\ UNCHANGED <<disconnect, staleScanners, pendingX, dials, lastFailure, nonWsVars>>

\* mainLoop: select { case <-exitCh: ...; default: ... }; on exitCh mainLoop
\* returns nil and StartWebSocket leaves its loop when app.disconnect is set
Select ==
    /\ wpc = "select"
    /\ wpc' = IF exitClosed THEN (IF disconnect THEN "menu" ELSE "dial") ELSE "read"
    /\ pendingX' = IF exitClosed /\ disconnect THEN 0 ELSE pendingX
    /\ UNCHANGED <<disconnect, exitClosed, curScanner, staleScanners, dials, lastFailure,
                   nonWsVars>>

\* mainLoop: c.ReadMessage() returns a message, or an error (the read
\* deadline included) on which mainLoop returns with its stdin goroutine
\* still reading
ReadMessage(ok) ==
    /\ wpc = "read"
    /\ IF ok
       THEN wpc' = "select" /\ UNCHANGED <<curScanner, staleScanners>>
       ELSE /\ wpc' = "failed"
            /\ curScanner' = FALSE
            /\ staleScanners' = IF curScanner THEN staleScanners + 1 ELSE staleScanners
    /\ UNCHANGED <<disconnect, exitClosed, pendingX, dials, lastFailure, nonWsVars>>

\* StartWebSocket: mainLoop returned an error
HandleError ==
    /\ wpc = "failed"
    /\ wpc' = afterError(disconnect)
    /\ lastFailure' = IF disconnect THEN "ended" ELSE "retry"
    /\ pendingX' = IF disconnect THEN 0 ELSE pendingX
    /\ UNCHANGED <<disconnect, exitClosed, curScanner, staleScanners, dials, nonWsVars>>

\* StartWebSocket: time.Sleep(5 * time.Second) is over, the loop calls mainLoop
SleepDone ==
    /\ wpc = "sleep"
    /\ wpc' = "dial"
    /\ UNCHANGED <<disconnect, exitClosed, curScanner, staleScanners, pendingX, dials,
                   lastFailure, nonWsVars>>

\* the operator types x while StartWebSocket runs
TypeX ==
    /\ wpc # "menu" /\ pendingX < MaxKeys
    /\ pendingX' = pendingX + 1
    /\ UNCHANGED <<wpc, disconnect, exitClosed, curScanner, staleScanners, dials,
                   lastFailure, nonWsVars>>

\* the stdin goroutine of the mainLoop in hand reads the x:
\* app.disconnect = true; close(exitCh); return
ScannerReadsX ==
    /\ curScanner /\ pendingX > 0
    /\ pendingX' = pendingX - 1
    /\ disconnect' = TRUE
    /\ exitClosed' = TRUE
    /\ curScanner' = FALSE
    /\ UNCHANGED <<wpc, staleScanners, dials, lastFailure, nonWsVars>>

\* the stdin goroutine of a mainLoop that returned reads the x: it sets
\* app.disconnect and closes the exitCh of its own mainLoop
StaleScannerReadsX ==
    /\ staleScanners > 0 /\ pendingX > 0
    /\ pendingX' = pendingX - 1
    /\ disconnect' = TRUE
    /\ staleScanners' = staleScanners - 1
    /\ UNCHANGED <<wpc, exitClosed, curScanner, dials, lastFailure, nonWsVars>>

WsNext ==
    \/ EnterStartWebSocket
    \/ \E ok \in BOOLEAN : Dial(ok)
    \/ \E ok \in BOOLEAN : WriteAuth(ok)
    \/ Select
    \/ \E ok \in BOOLEAN : ReadMessage(ok)
    \/ HandleError
    \/ SleepDone
    \/ TypeX
    \/ ScannerReadsX
    \/ StaleScannerReadsX

----------------------------------------------------------------------------
(* One call of ApplyUpdate on a ladder a snapshot left, with any message   *)
(* of the feed.                                                            *)

DeltaIdle == deltaBook = NilBook /\ deltaMsg = Garbage /\ deltaResult = NilBook

SnapshotMessages ==
    [json : {TRUE}, Channel : {"l2_data"}, Updates : UpdateLists(MaxUpdates)]

DeltaInit ==
    /\ deltaBook \in {NewOrderBookProcessor(msg) : msg \in SnapshotMessages}
    /\ deltaMsg = Garbage
    /\ deltaResult = NilBook

\* mainLoop hands a later text message to app.OrderBook.ApplyUpdate
ApplyDelta(msg) ==
    /\ ~deltaBook.nil /\ deltaResult.nil
    /\ deltaMsg' = msg
    /\ deltaResult' = ApplyUpdate(deltaBook, msg)
    /\ UNCHANGED <<deltaBook, nonDeltaVars>>

DeltaNext == \E msg \in FeedMessages : ApplyDelta(msg)

----------------------------------------------------------------------------
(* The initial state: CreateTradeApp and the package-level initialisers.   *)

NoMsg == [ok |-> FALSE, execType |-> "Z", orderId |-> NoOrderId, clOrdId |-> NoOrderId]
NoOrder == [Product |-> "", Side |-> "", StopPrice |-> 0, PlacedOrderId |-> NoOrderId,
            BaseQuantity |-> "", cid |-> NoOrderId]

StoreInit ==
    /\ stopOrders = <<>>
    /\ tempStopOrders = <<>>
    /\ appStopOrdersMutex = FALSE
    /\ stopOrdersMutex = FALSE
    /\ spc = "idle" /\ nextClOrdId = 1 /\ newOrder = NoOrder
    /\ mpc = "idle" /\ shown = <<>>
    /\ tpc = "idle" /\ productId = "" /\ currentPrice = 0
    /\ ti = 0 /\ toRemove = <<>> /\ tj = 0 /\ tickBefore = <<>>
    /\ rpc = "idle" /\ rmsg = NoMsg
    /\ sentOrders = {} /\ cancelRequests = {}
    /\ dispatchCount = [c \in ClOrdIds |-> 0]
    /\ removedCount = [c \in ClOrdIds |-> 0]
    /\ fired = {}
    /\ cancelFailed = {}
    /\ redelivered = FALSE
    /\ panicked = FALSE

----------------------------------------------------------------------------
(* The price polling task.  On every tick of its ticker the goroutine of   *)
(* StartPriceFetchingTask calls getAndCheckPrice for each product in turn: *)
(* fetchPrice asks the ticker endpoint, stores the PriceData in priceCache *)
(* and returns the price, and processStopOrders is run with it.  What the  *)
(* endpoint answers is free.  The validator is called by the command loop  *)
(* at any time in between.                                                 *)
MaxTicks == 2

products == <<"ETH-USD", "LTC-USD">>

PollIdle == pidx = 0 /\ ticks = 0 /\ lastErr = FALSE /\ evaluated = FALSE

\* the PriceData the endpoint may answer with (Price "" is a ticker without
\* a last trade)
PriceDatas ==
    { [Ask |-> "100", Bid |-> "100", Price |-> "100"],
      [Ask |-> "200", Bid |-> "200", Price |-> "200"],
      [Ask |-> "100", Bid |-> "100", Price |-> ""] }

\* http.Get fails, the status is not 200, the body is not JSON, or the body
\* decodes into a PriceData
TickResponses ==
    {[kind |-> k, data |-> [Ask |-> "", Bid |-> "", Price |-> ""]] :
        k \in {"get", "status", "decode"}} \cup
    [kind : {"ok"}, data : PriceDatas]

\* fetchPrice: the cache it leaves and the error it returns
fetchPrice(cache, product, resp) ==
    IF resp.kind # "ok" THEN [cache |-> cache, err |-> TRUE, price |-> 0]
    ELSE LET price == DecimalFromString(resp.data.Price)
             written == [p \in (DOMAIN cache) \cup {product} |->
                            IF p = product THEN resp.data ELSE cache[p]] IN
         [cache |-> written, err |-> ~price.ok, price |-> price.val]

\* the ticker fires: for _, product := range products
TickerFires ==
    /\ pidx = 0
    /\ ticks < MaxTicks
    /\ pidx' = 1
    /\ ticks' = ticks + 1
    /\ UNCHANGED <<lastErr, evaluated, priceCache, ffpArgs, ffpResult, nonPollVars>>

\* getAndCheckPrice for the next product of the tick
getAndCheckPrice(resp) ==
    /\ pidx >= 1
    /\ LET r == fetchPrice(priceCache, products[pidx], resp) IN
       /\ priceCache' = r.cache
       /\ lastErr' = r.err
       /\ evaluated' = ~r.err
    /\ pidx' = IF pidx = Len(products) THEN 0 ELSE pidx + 1
    /\ UNCHANGED <<ticks, ffpArgs, ffpResult, nonPollVars>>

\* the polling task is started with an empty cache; the command loop will
\* call the validator for one order
PollInit ==
    /\ priceCache = <<>>
    /\ ffpArgs \in [product : {"ETH-USD"}, side : Sides, orderType : {TradeTypeLimit},
                    limitPrice : {"100", "105.01"}, amount : {2}]
    /\ ffpResult = "none"
    /\ PollIdle

PollNext ==
    \/ TickerFires
    \/ \E resp \in TickResponses : getAndCheckPrice(resp)
    \/ Validate

----------------------------------------------------------------------------
(* Start-up and the FIX session.  StartServices starts the initiator,      *)
(* waits for one value on app.LogonChannel and starts the price polling    *)
(* task.  The session calls OnLogon on its callback goroutine after every  *)
(* logon, and the same goroutine hands the application messages to         *)
(* FromApp.  LogonChannel is unbuffered: a send completes together with a  *)
(* receive.                                                                *)
MaxLogons == 2
MaxInbound == 3
MaxPolls == 3

LogonIdle ==
    /\ svc = "start" /\ session = "down" /\ opc = "idle"
    /\ logons = 0 /\ completed = 0 /\ pollingTasks = 0
    /\ delivered = 0 /\ handled = 0 /\ polled = 0

\* go initiator.Start()
StartInitiator ==
    /\ svc = "start"
    /\ svc' = "receive"
    /\ UNCHANGED <<session, opc, logons, completed, pollingTasks, delivered, handled, polled,
                   nonLogonVars>>

\* the venue accepts the logon: the session calls OnLogon, which runs up to
\* its send on app.LogonChannel
OnLogon ==
    /\ svc # "start" /\ session = "down" /\ opc = "idle"
    /\ logons < MaxLogons
    /\ session' = "up"
    /\ opc' = "send"
    /\ logons' = logons + 1
    /\ UNCHANGED <<svc, completed, pollingTasks, delivered, handled, polled, nonLogonVars>>

\* app.LogonChannel <- true meets <-app.LogonChannel: OnLogon returns and
\* StartServices goes on
LogonChannel ==
    /\ opc = "send" /\ svc = "receive"
    /\ opc' = "idle"
    /\ completed' = completed + 1
    /\ svc' = "polling"
    /\ UNCHANGED <<session, logons, pollingTasks, delivered, handled, polled, nonLogonVars>>

\* StartPriceFetchingTask(app, products, priceFetchGap); StartServices returns
StartPriceFetchingTask ==
    /\ svc = "polling"
    /\ pollingTasks' = pollingTasks + 1
    /\ svc' = "menu"
    /\ UNCHANGED <<session, opc, logons, completed, delivered, handled, polled, nonLogonVars>>

\* the venue sends an application message (an execution report)
Deliver ==
    /\ session = "up"
    /\ delivered < MaxInbound
    /\ delivered' = delivered + 1
    /\ UNCHANGED <<svc, session, opc, logons, completed, pollingTasks, handled, polled,
                   nonLogonVars>>

\* the callback goroutine hands the next message to FromApp
FromApp ==
    /\ opc = "idle"
    /\ handled < delivered
    /\ handled' = handled + 1
    /\ UNCHANGED <<svc, session, opc, logons, completed, pollingTasks, delivered, polled,
                   nonLogonVars>>

\* the connection is lost or the venue logs the session out; the initiator
\* will log on again
OnLogout ==
    /\ session = "up" /\ opc = "idle"
    /\ session' = "down"
    /\ UNCHANGED <<svc, opc, logons, completed, pollingTasks, delivered, handled, polled,
                   nonLogonVars>>

\* the goroutine of StartPriceFetchingTask takes a tick of its ticker and
\* polls the products
PollTick ==
    /\ pollingTasks > 0
    /\ polled < MaxPolls
    /\ polled' = polled + 1
    /\ UNCHANGED <<svc, session, opc, logons, completed, pollingTasks, delivered,
                   handled, nonLogonVars>>

LogonNext ==
    \/ StartInitiator
    \/ OnLogon
    \/ LogonChannel
    \/ StartPriceFetchingTask
    \/ Deliver
    \/ FromApp
    \/ OnLogout
    \/ PollTick

----------------------------------------------------------------------------
(* The confirmed list at the level of its memory.  stopOrders is a slice:  *)
(* a header (array, length) over a backing array.  getExecType appends to  *)
(* it under stopOrdersMutex and the OCO manager cuts an entry out of it on *)
(* the main goroutine under no lock, so the two statements interleave:     *)
(* each reads the header, works on the array, and stores a header.         *)
(* stopOrders is kept as what the header in force shows of its array.      *)

SliceOrders == 3

NilHdr == [ptr |-> 0, len |-> 0]

SliceIdle ==
    /\ heap = <<>> /\ hdr = NilHdr
    /\ cutPc = "idle" /\ cutHdr = NilHdr
    /\ appPc = "idle" /\ appHdr = NilHdr

\* what a header shows of the heap
View(h, header) ==
    IF header.ptr = 0 THEN <<>> ELSE SubSeq(h[header.ptr], 1, header.len)

cap(h, header) == IF header.ptr = 0 THEN 0 ELSE Len(h[header.ptr])

\* the provisional entry of the c-th -oco order, as ProcessSimpleTradeInput
\* stored it
ProvisionalOrder(c) ==
    [Product |-> "ETH-USD", Side |-> TradeSideBuy, StopPrice |-> 1,
     PlacedOrderId |-> NoOrderId, BaseQuantity |-> BaseQuantityOf(c), cid |-> c]

\* ProcessSimpleTradeInput with -oco, from ConstructTrade to the store of
\* the provisional entry
SubmitOco ==
    /\ nextClOrdId <= SliceOrders
    /\ tempStopOrders' = tempStopOrders @@ (nextClOrdId :> ProvisionalOrder(nextClOrdId))
    /\ nextClOrdId' = nextClOrdId + 1
    /\ UNCHANGED <<stopOrders, sliceVars>>
    /\ UNCHANGED <<appStopOrdersMutex, stopOrdersMutex, spc, newOrder, mpc, shown,
                   tickVars, reportVars, historyVars, nonStoreVarsButSlice>>

\* append(s, x) up to the store of its result: in place when the capacity
\* allows, else into a new array of twice the capacity (growslice)
appendWrite(h, header, x) ==
    IF header.len < cap(h, header)
    THEN [heap |-> [h EXCEPT ![header.ptr][header.len + 1] = x],
          hdr  |-> [ptr |-> header.ptr, len |-> header.len + 1]]
    ELSE LET newcap == IF header.len = 0 THEN 1 ELSE 2 * header.len
             array == [i \in 1..newcap |->
                          IF i <= header.len THEN h[header.ptr][i]
                          ELSE IF i = header.len + 1 THEN x ELSE NoOrder] IN
         [heap |-> Append(h, array),
          hdr  |-> [ptr |-> Len(h) + 1, len |-> header.len + 1]]

\* append(s[:index], s[index+1:]...) up to the store of its result: the
\* entries behind index move one place down inside the array
cutMove(h, header, index) ==
    [heap |-> [h EXCEPT ![header.ptr] =
                  [i \in 1..Len(h[header.ptr]) |->
                      IF i > index /\ i < header.len THEN h[header.ptr][i + 1]
                      ELSE h[header.ptr][i]]],
     hdr  |-> [ptr |-> header.ptr, len |-> header.len - 1]]

\* getExecType on the report that acknowledges order c as new: the entry
\* leaves tempStopOrders and, if no confirmed entry has its order id, is
\* written behind the entries that the header shows
PromoteWrite(c) ==
    /\ appPc = "idle"
    /\ c \in DOMAIN tempStopOrders
    /\ LET tempOrder == [tempStopOrders[c] EXCEPT !.PlacedOrderId = VenueOrderId(c)] IN
       /\ tempStopOrders' = delete(tempStopOrders, c)
       /\ IF orderExistsInStopOrders(stopOrders, VenueOrderId(c))
          THEN UNCHANGED <<heap, appPc, appHdr, stopOrders>>
          ELSE LET r == appendWrite(heap, hdr, tempOrder) IN
               /\ heap' = r.heap
               /\ appHdr' = r.hdr
               /\ appPc' = "written"
               /\ stopOrders' = View(r.heap, hdr)
    /\ UNCHANGED <<hdr, cutPc, cutHdr>>
    /\ UNCHANGED <<appStopOrdersMutex, stopOrdersMutex, submitVars, tickVars, reportVars,
                   historyVars, nonStoreVarsButSlice>>

\* stopOrders = <the result of append>
PromoteStore ==
    /\ appPc = "written"
    /\ hdr' = appHdr
    /\ stopOrders' = View(heap, appHdr)
    /\ appPc' = "idle"
    /\ UNCHANGED <<tempStopOrders, heap, cutPc, cutHdr, appHdr>>
    /\ UNCHANGED <<appStopOrdersMutex, stopOrdersMutex, submitVars, tickVars, reportVars,
                   historyVars, nonStoreVarsButSlice>>

\* displayStopOrders, the operator typed "choice -c": the range check
\* against len(stopOrders), then the entries behind choice-1 move down
CutMove(choice) ==
    /\ cutPc = "idle"
    /\ choice > 0 /\ choice <= hdr.len
    /\ LET r == cutMove(heap, hdr, choice - 1) IN
       /\ heap' = r.heap
       /\ cutHdr' = r.hdr
       /\ stopOrders' = View(r.heap, hdr)
    /\ cutPc' = "moved"
    /\ UNCHANGED <<tempStopOrders, hdr, appPc, appHdr>>
    /\ UNCHANGED <<appStopOrdersMutex, stopOrdersMutex, submitVars, tickVars, reportVars,
                   historyVars, nonStoreVarsButSlice>>

\* stopOrders = <the result of append>
CutStore ==
    /\ cutPc = "moved"
    /\ hdr' = cutHdr
    /\ stopOrders' = View(heap, cutHdr)
    /\ cutPc' = "idle"
    /\ UNCHANGED <<tempStopOrders, heap, cutHdr, appPc, appHdr>>
    /\ UNCHANGED <<appStopOrdersMutex, stopOrdersMutex, submitVars, tickVars, reportVars,
                   historyVars, nonStoreVarsButSlice>>

SliceNext ==
    \/ SubmitOco
    \/ \E c \in 1..SliceOrders : PromoteWrite(c)
    \/ PromoteStore
    \/ \E choice \in 1..SliceOrders : CutMove(choice)
    \/ CutStore

----------------------------------------------------------------------------
(* Order submission: ProcessSimpleTradeInput with -oco, on the main loop.  *)

\* ConstructTrade: CreateHeader draws the clOrdId and the limit order is sent
SubmitSend(product, side, stop) ==
    /\ spc = "idle" /\ mpc = "idle" /\ ~panicked
    /\ UNCHANGED nonStoreVars
    /\ nextClOrdId <= MaxOrders
    /\ newOrder' = [Product |-> product, Side |-> side, StopPrice |-> stop,
                    PlacedOrderId |-> NoOrderId,
                    BaseQuantity |-> BaseQuantityOf(nextClOrdId),
                    cid |-> nextClOrdId]
    /\ nextClOrdId' = nextClOrdId + 1
    /\ spc' = "sent"
    /\ UNCHANGED <<storeVars, mpc, shown, tickVars, reportVars, historyVars>>

\* tempStopOrders[clOrdId] = newOrder, the statement after ConstructTrade returned
SubmitStore ==
    /\ spc = "sent" /\ ~panicked
    /\ UNCHANGED nonStoreVars
    /\ tempStopOrders' = tempStopOrders @@ (newOrder.cid :> newOrder)
    /\ spc' = "idle"
    /\ newOrder' = NoOrder
    /\ UNCHANGED <<stopOrders, appStopOrdersMutex, stopOrdersMutex, nextClOrdId,
                   mpc, shown, tickVars, reportVars, historyVars>>

----------------------------------------------------------------------------
(* The OCO manager: displayStopOrders, run by the main command loop while  *)
(* the polling task and the FIX callbacks go on.  It takes no lock.        *)

\* the top of the loop: return when the list is empty, else print it and
\* wait for the operator
ManagerLoop(orders) ==
    IF Len(orders) = 0
    THEN mpc' = "idle" /\ shown' = <<>>
    ELSE mpc' = "shown" /\ shown' = printStopOrders(orders)

\* what the operator types besides x: a number out of range, a number
\* without -c, and each number with -c
ManagerInputs ==
    {[choice |-> 0, autoCancel |-> TRUE], [choice |-> 1, autoCancel |-> FALSE]} \cup
    [choice : 1..MaxOrders, autoCancel : {TRUE}]

\* the operator opens the OCO manager from the menu
ManagerShow ==
    /\ spc = "idle" /\ mpc = "idle" /\ ~panicked
    /\ UNCHANGED nonStoreVars
    /\ Len(stopOrders) > 0
    /\ ManagerLoop(stopOrders)
    /\ UNCHANGED <<storeVars, spc, nextClOrdId, newOrder, tickVars, reportVars,
                   sentOrders, cancelRequests, dispatchCount, removedCount, fired,
                   cancelFailed, redelivered, panicked>>

\* the operator types x
ManagerExit ==
    /\ mpc = "shown" /\ ~panicked
    /\ UNCHANGED nonStoreVars
    /\ mpc' = "idle" /\ shown' = <<>>
    /\ UNCHANGED <<storeVars, spc, nextClOrdId, newOrder, tickVars, reportVars,
                   sentOrders, cancelRequests, dispatchCount, removedCount, fired,
                   cancelFailed, redelivered, panicked>>

\* the operator types a number, with or without -c: the choice is checked
\* against the list as it is now, the entry at choice-1 is cut out when -c
\* was given, and the loop prints the list again
ManagerInput(choice, autoCancel) ==
    /\ mpc = "shown" /\ ~panicked
    /\ UNCHANGED nonStoreVars
    /\ IF choice <= 0 \/ choice > Len(stopOrders) \/ ~autoCancel
       THEN /\ ManagerLoop(stopOrders)
            /\ UNCHANGED <<stopOrders, removedCount>>
       ELSE /\ stopOrders' = RemoveAt(stopOrders, choice - 1)
            /\ removedCount' = Bump(removedCount, stopOrders[choice].cid)
            /\ ManagerLoop(RemoveAt(stopOrders, choice - 1))
    /\ UNCHANGED <<tempStopOrders, appStopOrdersMutex, stopOrdersMutex, spc,
                   nextClOrdId, newOrder, tickVars, reportVars, sentOrders,
                   cancelRequests, dispatchCount, fired, cancelFailed, redelivered,
                   panicked>>

----------------------------------------------------------------------------
(* The price polling task: getAndCheckPrice -> processStopOrders.          *)

\* app.stopOrdersMutex.Lock(); i := len(stopOrders) - 1
TickLock(product, price) ==
    /\ tpc = "idle" /\ ~panicked
    /\ UNCHANGED nonStoreVars
    /\ \A c \in ClOrdIds : dispatchCount[c] < MaxDispatch
    /\ appStopOrdersMutex = FALSE
    /\ appStopOrdersMutex' = TRUE
    /\ tpc' = "scan"
    /\ productId' = product /\ currentPrice' = price
    /\ ti' = Len(stopOrders) - 1
    /\ toRemove' = <<>>
    /\ tickBefore' = stopOrders
    /\ UNCHANGED <<stopOrders, tempStopOrders, stopOrdersMutex, tj,
                   submitVars, reportVars, historyVars>>

\* one iteration of the reverse scan, the paired dispatch of a fired order included
TickScan ==
    /\ tpc = "scan" /\ ~panicked
    /\ UNCHANGED nonStoreVars
    /\ IF ti < 0
       THEN /\ tpc' = "remove"
            /\ tj' = Len(toRemove) - 1
            /\ UNCHANGED <<ti, toRemove, historyVars>>
       ELSE IF ti >= Len(stopOrders)
       THEN \* stopOrders[i] with i out of range
            /\ panicked' = TRUE
            /\ UNCHANGED <<tpc, tj, ti, toRemove, sentOrders, cancelRequests,
                           dispatchCount, removedCount, fired, cancelFailed,
                           redelivered>>
       ELSE LET order == stopOrders[ti + 1] IN
            /\ ti' = ti - 1
            /\ UNCHANGED <<tpc, tj, removedCount, redelivered, panicked>>
            /\ IF order.Product = productId /\ Fires(order, currentPrice)
               THEN /\ sentOrders' = sentOrders \cup
                          {IF order.Side = TradeSideBuy THEN executeStopBuyOco(order)
                           ELSE executeStopSellOco(order)}
                    /\ cancelRequests' = cancelRequests \cup {order.PlacedOrderId}
                    /\ dispatchCount' = Bump(dispatchCount, order.cid)
                    /\ fired' = fired \cup {order.cid}
                    /\ \E err \in BOOLEAN :
                          \* CancelOrder's error is logged and dropped
                          cancelFailed' = IF err THEN cancelFailed \cup {order.cid}
                                          ELSE cancelFailed \ {order.cid}
                    /\ toRemove' = Append(toRemove, ti)
               ELSE UNCHANGED <<sentOrders, cancelRequests, dispatchCount, fired,
                                cancelFailed, toRemove>>
    /\ UNCHANGED <<storeVars, productId, currentPrice, tickBefore, submitVars,
                   reportVars>>

\* one iteration of: for i := len(toRemove) - 1; i >= 0; i-- { removeStopOrder(toRemove[i]) }
TickRemove ==
    /\ tpc = "remove" /\ ~panicked
    /\ UNCHANGED nonStoreVars
    /\ IF tj < 0
       THEN /\ tpc' = "unlock"
            /\ UNCHANGED <<tj, stopOrders, removedCount>>
       ELSE LET index == toRemove[tj + 1] IN
            /\ stopOrders' = removeStopOrder(stopOrders, index)
            /\ removedCount' =
                  IF index < 0 \/ index >= Len(stopOrders) THEN removedCount
                  ELSE Bump(removedCount, stopOrders[index + 1].cid)
            /\ tj' = tj - 1
            /\ UNCHANGED tpc
    /\ UNCHANGED <<tempStopOrders, appStopOrdersMutex, stopOrdersMutex, productId,
                   currentPrice, ti, toRemove, tickBefore, submitVars, reportVars,
                   sentOrders, cancelRequests, dispatchCount, fired, cancelFailed,
                   redelivered,
                   panicked>>

\* defer app.stopOrdersMutex.Unlock()
TickUnlock ==
    /\ tpc = "unlock" /\ ~panicked
    /\ UNCHANGED nonStoreVars
    /\ appStopOrdersMutex' = FALSE
    /\ tpc' = "idle"
    /\ productId' = "" /\ currentPrice' = 0
    /\ ti' = 0 /\ toRemove' = <<>> /\ tj' = 0 /\ tickBefore' = <<>>
    /\ fired' = {} /\ cancelFailed' = {}
    /\ UNCHANGED <<stopOrders, tempStopOrders, stopOrdersMutex, submitVars, reportVars,
                   sentOrders, cancelRequests, dispatchCount, removedCount,
                   redelivered,
                   panicked>>

----------------------------------------------------------------------------
(* The report callback: onMessage -> getExecType.  The session delivers    *)
(* one message at a time.  A message whose ExecType, OrderID or ClOrdID    *)
(* field cannot be read has ok = FALSE.                                    *)

Malformed == [ok |-> FALSE, execType |-> "Z", orderId |-> ForeignClOrdId,
              clOrdId |-> ForeignClOrdId]
Messages ==
    {Malformed, [ok |-> TRUE, execType |-> "2", clOrdId |-> ForeignClOrdId,
                 orderId |-> ForeignClOrdId]} \cup
    [ok : {TRUE}, execType : ExecCodes,
     clOrdId : 1..(nextClOrdId - 1), orderId : 1..(nextClOrdId - 1)]

\* stopOrdersMutex.Lock(), the field reads and their early returns, then the
\* promotion of the provisional entry:
\* if tempOrder, ok := tempStopOrders[clOrdIdField]; ok {...}
ReportPromote(m) ==
    /\ rpc = "idle" /\ ~panicked
    /\ UNCHANGED nonStoreVars
    /\ m.orderId = VenueOrderId(m.clOrdId)
    /\ stopOrdersMutex = FALSE
    /\ stopOrdersMutex' = TRUE
    /\ rmsg' = m
    /\ redelivered' = (m = rmsg)
    /\ IF ~m.ok
       THEN /\ rpc' = "unlock"
            /\ UNCHANGED <<stopOrders, tempStopOrders>>
       ELSE /\ rpc' = "terminal"
            /\ IF m.clOrdId \in DOMAIN tempStopOrders
               THEN LET tempOrder == [tempStopOrders[m.clOrdId]
                                        EXCEPT !.PlacedOrderId = m.orderId] IN
                    /\ tempStopOrders' = delete(tempStopOrders, m.clOrdId)
                    /\ stopOrders' =
                          IF ~orderExistsInStopOrders(stopOrders, m.orderId)
                          THEN append(stopOrders, tempOrder)
                          ELSE stopOrders
               ELSE UNCHANGED <<stopOrders, tempStopOrders>>
    /\ UNCHANGED <<appStopOrdersMutex, submitVars,
                   tickVars, sentOrders, cancelRequests, dispatchCount, removedCount,
                   fired, cancelFailed, panicked>>

\* the terminal branch cutting the last entry out when the report names none
ReportTerminal_CutsUnknown ==
    /\ rpc = "terminal" /\ ~panicked
    /\ UNCHANGED nonStoreVars
    /\ rpc' = "unlock"
    /\ LET description == execTypeDescription(rmsg.execType)
           index == findOrderIndexById(stopOrders, rmsg.orderId) IN
       IF (description = FixExecFill \/ description = FixExecCanceled) /\ index # -1
       THEN /\ stopOrders' = RemoveAt(stopOrders, index)
            /\ removedCount' = Bump(removedCount, stopOrders[index + 1].cid)
       ELSE IF index = -1 /\ Len(stopOrders) > 0
       THEN /\ stopOrders' = RemoveAt(stopOrders, Len(stopOrders) - 1)
            /\ UNCHANGED removedCount
       ELSE UNCHANGED <<stopOrders, removedCount>>
    /\ UNCHANGED <<tempStopOrders, appStopOrdersMutex, stopOrdersMutex, rmsg,
                   submitVars, tickVars, sentOrders, cancelRequests, dispatchCount,
                   fired, cancelFailed, redelivered, panicked>>

\* if execTypeDescription == FixExecFill || execTypeDescription == FixExecCanceled {...}
ReportTerminal ==
    /\ rpc = "terminal" /\ ~panicked
    /\ UNCHANGED nonStoreVars
    /\ rpc' = "unlock"
    /\ LET description == execTypeDescription(rmsg.execType)
           index == findOrderIndexById(stopOrders, rmsg.orderId) IN
       IF (description = FixExecFill \/ description = FixExecCanceled) /\ index # -1
       THEN /\ stopOrders' = RemoveAt(stopOrders, index)
            /\ removedCount' = Bump(removedCount, stopOrders[index + 1].cid)
       ELSE UNCHANGED <<stopOrders, removedCount>>
    /\ UNCHANGED <<tempStopOrders, appStopOrdersMutex, stopOrdersMutex, rmsg,
                   submitVars, tickVars, sentOrders, cancelRequests, dispatchCount,
                   fired, cancelFailed, redelivered, panicked>>

\* defer stopOrdersMutex.Unlock(), after the log line
ReportUnlock ==
    /\ rpc = "unlock" /\ ~panicked
    /\ UNCHANGED nonStoreVars
    /\ stopOrdersMutex' = FALSE
    /\ rpc' = "idle"
    \* history: only a terminal report for an order of this session is
    \* remembered, to recognise its redelivery
    /\ rmsg' = IF rmsg.ok /\ rmsg.execType \in {"2", "4"} /\ rmsg.clOrdId # ForeignClOrdId
               THEN rmsg ELSE NoMsg
    /\ redelivered' = FALSE
    /\ UNCHANGED <<stopOrders, tempStopOrders, appStopOrdersMutex,
                   submitVars, tickVars, sentOrders, cancelRequests, dispatchCount,
                   removedCount, fired, cancelFailed, panicked>>

----------------------------------------------------------------------------
Next ==
    \/ \E product \in supportedProducts, side \in Sides, stop \in StopPrices :
          SubmitSend(product, side, stop)
    \/ SubmitStore
    \/ ManagerShow
    \/ ManagerExit
    \/ \E input \in ManagerInputs : ManagerInput(input.choice, input.autoCancel)
    \/ \E product \in supportedProducts, price \in TickPrices : TickLock(product, price)
    \/ TickScan
    \/ TickRemove
    \/ TickUnlock
    \/ \E m \in Messages : ReportPromote(m)
    \/ ReportTerminal
    \/ ReportUnlock

Init == StoreInit /\ BookIdle /\ TopIdle /\ FfpIdle /\ DeltaIdle /\ CmdIdle /\ WsIdle /\ SliceIdle /\ LogonIdle /\ PollIdle

Spec == Init /\ [][Next]_vars

BookInit == StoreInit /\ BookIdle /\ TopIdle /\ FfpIdle /\ DeltaIdle /\ CmdIdle /\ WsIdle /\ SliceIdle /\ LogonIdle /\ PollIdle
BookSpec == BookInit /\ [][BookNext]_vars

ResubSpec == BookInit /\ [][ResubNext]_vars

TopNInit == StoreInit /\ BookIdle /\ TopInit /\ FfpIdle /\ DeltaIdle /\ CmdIdle /\ WsIdle /\ SliceIdle /\ LogonIdle /\ PollIdle
TopNSpec == TopNInit /\ [][TopNext]_vars

FfpSpecInit == StoreInit /\ BookIdle /\ TopIdle /\ FfpInit /\ DeltaIdle /\ CmdIdle /\ WsIdle /\ SliceIdle /\ LogonIdle /\ PollIdle
FfpSpec == FfpSpecInit /\ [][FfpNext]_vars

WsSpecInit == StoreInit /\ BookIdle /\ TopIdle /\ FfpIdle /\ DeltaIdle /\ CmdIdle /\ WsIdle /\ SliceIdle /\ LogonIdle /\ PollIdle
WsSpec == WsSpecInit /\ [][WsNext]_vars

\* the goroutines are scheduled and the calls of the socket return; the
\* operator and the outcome of each call are free
WsFairSpec ==
    /\ WsSpec
    /\ WF_vars(\E ok \in BOOLEAN : Dial(ok))
    /\ WF_vars(\E ok \in BOOLEAN : WriteAuth(ok))
    /\ WF_vars(Select)
    /\ WF_vars(\E ok \in BOOLEAN : ReadMessage(ok))
    /\ WF_vars(HandleError)
    /\ WF_vars(SleepDone)
    /\ WF_vars(ScannerReadsX)

CmdSpecInit == StoreInit /\ BookIdle /\ TopIdle /\ CmdInit /\ DeltaIdle /\ WsIdle /\ SliceIdle /\ LogonIdle /\ PollIdle
CmdSpec == CmdSpecInit /\ [][CmdNext]_vars

DeltaSpecInit == StoreInit /\ BookIdle /\ TopIdle /\ FfpIdle /\ DeltaInit /\ CmdIdle /\ WsIdle /\ SliceIdle /\ LogonIdle /\ PollIdle
DeltaSpec == DeltaSpecInit /\ [][DeltaNext]_vars

SliceSpec == Init /\ [][SliceNext]_vars

PollSpecInit ==
    /\ StoreInit /\ BookIdle /\ TopIdle /\ PollInit /\ DeltaIdle /\ CmdIdle /\ WsIdle
    /\ SliceIdle /\ LogonIdle
PollSpec == PollSpecInit /\ [][PollNext]_vars

LogonSpec == Init /\ [][LogonNext]_vars

\* the goroutines of the process are scheduled; when the venue accepts a
\* logon, sends a message or drops the session is free
LogonFairSpec ==
    /\ LogonSpec
    /\ WF_vars(StartInitiator)
    /\ WF_vars(LogonChannel)
    /\ WF_vars(StartPriceFetchingTask)
    /\ WF_vars(FromApp)
    /\ WF_vars(PollTick)

----------------------------------------------------------------------------
(* Properties of the contingent order store. *)

InTickSection == tpc \in {"scan", "remove", "unlock"}
InReportSection == rpc \in {"terminal", "unlock"}

\* C1 (as claimed): every contingent order is removed from the confirmed list
\* at most once and its paired dispatch (market order plus cancel) happens at
\* most once, over all interleavings of ticks and reports.
C1_AtMostOnceTrigger ==
    \A c \in ClOrdIds : removedCount[c] <= 1 /\ dispatchCount[c] <= 1

\* C2 (as claimed): when a confirmed contingent order fires on a tick, a market
\* order with its side and base quantity has been submitted and the cancel of
\* its venue order id requested, for buy and sell stops alike, and once the
\* removal pass of that tick is over the order is no longer confirmed.
C2_FireDispatchesAndRemoves ==
    /\ tpc = "scan" =>
          \A i \in 1..Len(stopOrders) :
             stopOrders[i].cid \in fired =>
                /\ \E m \in sentOrders :
                      /\ m.cid = stopOrders[i].cid
                      /\ m.OrdType = "1"
                      /\ m.Side = stopOrders[i].Side
                      /\ m.BaseQuantity = stopOrders[i].BaseQuantity
                /\ stopOrders[i].PlacedOrderId \in cancelRequests
    /\ tpc = "unlock" =>
          \A i \in 1..Len(stopOrders) : stopOrders[i].cid \notin fired

\* C3 (as claimed): processStopOrders and getExecType are never inside their
\* critical sections over the store at the same time.
C3_MutualExclusion == ~(InTickSection /\ InReportSection)

\* C4 (as claimed): when the Reconciler has processed the second of two
\* consecutive deliveries of one terminal (fill or canceled) report, the entry
\* the report names is not confirmed (the first delivery removed it, the
\* second found none), it was removed at most once, and nothing panicked.
C4_TerminalReportTwice ==
    (rpc = "unlock" /\ redelivered /\ rmsg.ok /\ rmsg.execType \in {"2", "4"}) =>
       /\ ~orderExistsInStopOrders(stopOrders, rmsg.orderId)
       /\ \A c \in ClOrdIds : removedCount[c] <= 1
       /\ ~panicked

----------------------------------------------------------------------------
(* Properties of the order-book maintainer, under BookSpec. *)

StrictlyDescending(levels) ==
    \A i \in 1..(Len(levels) - 1) : levels[i].Px > levels[i + 1].Px
StrictlyAscending(levels) ==
    \A i \in 1..(Len(levels) - 1) : levels[i].Px < levels[i + 1].Px

BookLive == wsState = "connected" /\ ~isFirstMessage /\ ~OrderBook.nil /\ ~bookPanicked

\* C5 (as claimed): after every sort() of the Maintainer, for every snapshot
\* and every sequence of deltas, the bids are strictly descending and the asks
\* strictly ascending by price, so no two levels of a side share a price.
C5_LadderSorted ==
    ~sorted.nil => StrictlyDescending(sorted.Bids) /\ StrictlyAscending(sorted.Offers)

ZeroQtyDelta(side, px) ==
    [json |-> TRUE, Channel |-> "l2_data",
     Updates |-> <<[side |-> side, px |-> px, qty |-> "0"]>>]
SideOf(p, side) == IF side = "bid" THEN p.Bids ELSE p.Offers
OtherSideOf(p, side) == IF side = "bid" THEN p.Offers ELSE p.Bids

\* C6 (as claimed): on the live Ladder, a delta with quantity 0 at a price the
\* side holds removes that level and changes no other level, and at a price
\* the side does not hold it leaves the Ladder unchanged.
C6_ZeroQuantityRemoval ==
    BookLive =>
      \A side \in SideTags, px \in PxStrings :
         LET after == ApplyUpdate(OrderBook, ZeroQtyDelta(side, px))
             price == ParseFloat(px).val
             mine == SideOf(OrderBook, side) IN
         IF \E i \in 1..Len(mine) : mine[i].Px = price
         THEN /\ SideOf(after, side) = SelectSeq(mine, LAMBDA level : level.Px # price)
              /\ OtherSideOf(after, side) = OtherSideOf(OrderBook, side)
         ELSE after = OrderBook

\* C7 (as claimed): on the live Ladder, applying any delta twice in a row
\* gives the same Ladder, level for level, as applying it once.
C7_DeltaReplayIdempotent ==
    BookLive =>
      \A msg \in FeedMessages :
         ApplyUpdate(ApplyUpdate(OrderBook, msg), msg) = ApplyUpdate(OrderBook, msg)

----------------------------------------------------------------------------
(* Properties of GetTopNBids / GetTopNOffers, under TopNSpec. *)

Min(a, b) == IF a < b THEN a ELSE b

\* C8 (as claimed): topN never returns more than min(n, number of levels)
\* entries and never more than 9, whatever n the caller passes.
C8_TopNBounded ==
    (topResult.called /\ ~topResult.panic) =>
       /\ Len(topResult.levels) <= Min(topN, Len(topLevels))
       /\ Len(topResult.levels) <= MaxDepth

\* C8 (as amended): for every n >= 0 topN returns exactly the first
\* min(n, number of levels) entries without a panic, which is at most 9
\* entries whenever n is in the validated range 1..9.
C8_TopNFirstMin ==
    (topResult.called /\ topN >= 0) =>
       /\ ~topResult.panic
       /\ topResult.levels = SubSeq(topLevels, 1, Min(topN, Len(topLevels)))
       /\ topN \in 1..MaxDepth => Len(topResult.levels) <= MaxDepth

\* C8 witness: a validated n smaller than the side, so the result is cut to n
C8_Witness ==
    /\ topResult.called
    /\ topN \in 1..MaxDepth
    /\ Len(topLevels) > MaxDepth
    /\ Len(topResult.levels) = topN

----------------------------------------------------------------------------
(* Properties of the fat-finger validator, under FfpSpec. *)

FfpCached == ffpResult # "none" /\ ffpArgs.product \in DOMAIN priceCache
FfpBid == DecimalFromString(priceCache[ffpArgs.product].Bid)
FfpAsk == DecimalFromString(priceCache[ffpArgs.product].Ask)
FfpLimit == DecimalFromString(ffpArgs.limitPrice)

\* C9: with a cached price, an order whose cached bid (buy) or cached ask
\* (sell) times its quantity exceeds the maximum notional is rejected, be it
\* a market or a limit order.
C9_NotionalRejected ==
    FfpCached =>
       /\ (ffpArgs.side = TradeSideBuy /\ FfpBid.ok
             /\ FfpBid.val * ffpArgs.amount > MaxOrderSize * 100) => ffpResult = "reject"
       /\ (ffpArgs.side = TradeSideSell /\ FfpAsk.ok
             /\ FfpAsk.val * ffpArgs.amount > MaxOrderSize * 100) => ffpResult = "reject"

\* C9 witness: a market buy over the notional at the bid but not at the ask
C9_Witness ==
    /\ FfpCached /\ ffpArgs.side = TradeSideBuy /\ ffpArgs.orderType = TradeTypeMarket
    /\ FfpBid.ok /\ FfpAsk.ok
    /\ FfpBid.val * ffpArgs.amount > MaxOrderSize * 100
    /\ FfpAsk.val * ffpArgs.amount =< MaxOrderSize * 100
    /\ ffpResult = "reject"

\* C10: with a cached price, a limit buy priced above bid x 1.05 and a limit
\* sell priced below ask x 0.95 are rejected, and a limit price exactly at the
\* bound or on its favorable side is accepted when the notional check passes.
C10_DeviationBound ==
    (FfpCached /\ ffpArgs.orderType = TradeTypeLimit /\ FfpLimit.ok) =>
       /\ (ffpArgs.side = TradeSideBuy /\ FfpBid.ok) =>
             IF FfpLimit.val * 100 > FfpBid.val * 105
             THEN ffpResult = "reject"
             ELSE FfpBid.val * ffpArgs.amount =< MaxOrderSize * 100 => ffpResult = "accept"
       /\ (ffpArgs.side = TradeSideSell /\ FfpAsk.ok) =>
             IF FfpLimit.val * 100 < FfpAsk.val * 95
             THEN ffpResult = "reject"
             ELSE FfpAsk.val * ffpArgs.amount =< MaxOrderSize * 100 => ffpResult = "accept"

\* C10 witness: a limit buy priced exactly at bid x 1.05 is accepted
C10_Witness ==
    /\ FfpCached /\ ffpArgs.orderType = TradeTypeLimit /\ ffpArgs.side = TradeSideBuy
    /\ FfpLimit.ok /\ FfpBid.ok
    /\ FfpLimit.val * 100 = FfpBid.val * 105
    /\ ffpResult = "accept"

\* C11: a product without an entry in the price cache is let through,
\* whatever the side, the order type, the limit price and the quantity.
C11_UncachedAccepted ==
    (ffpResult # "none" /\ ffpArgs.product \notin DOMAIN priceCache) => ffpResult = "accept"

\* C11 witness: an uncached product, an unparsable limit price and the
\* largest quantity, accepted while another product is cached
C11_Witness ==
    /\ ffpResult = "accept"
    /\ priceCache # <<>>
    /\ ffpArgs.product \notin DOMAIN priceCache
    /\ ffpArgs.orderType = TradeTypeLimit
    /\ ~FfpLimit.ok
    /\ ffpArgs.amount = 501

----------------------------------------------------------------------------
(* Properties of the OCO manager and of the store's writers, under Spec. *)

\* a step of displayStopOrders that cut an entry out of the list: the list
\* shrank and neither the removal pass of a tick nor a report moved
ManagerRemovalStep ==
    /\ mpc = "shown"
    /\ Len(stopOrders') < Len(stopOrders)
    /\ tj' = tj /\ rpc' = rpc

\* C12 (as claimed): 'k -c' in the OCO manager removes the contingent order
\* that was printed as number k, and only that one, also when a tick or a
\* report was processed between the printing and the operator's input.
C12_ManagerCancelsDisplayed ==
    [][ManagerRemovalStep =>
          \E k \in 1..Len(stopOrders) :
             /\ stopOrders' = RemoveAt(stopOrders, k - 1)
             /\ k <= Len(shown)
             /\ shown[k] = stopOrders[k].cid]_vars

----------------------------------------------------------------------------
(* Properties of one tick, under Spec. *)

InTickBefore(order) == \E i \in 1..Len(tickBefore) : tickBefore[i].cid = order.cid

\* C13 (as claimed): when the removal pass of a tick is over, the confirmed
\* list is the list the tick found with exactly the fired entries removed:
\* no fired entry is left, and the entries that did not fire are all there in
\* their original order, however many entries fired.
C13_TickRemovesExactlyFired ==
    tpc = "unlock" =>
       /\ \A i \in 1..Len(stopOrders) : stopOrders[i].cid \notin fired
       /\ SelectSeq(stopOrders, InTickBefore) =
             SelectSeq(tickBefore, LAMBDA order : order.cid \notin fired)

\* the trigger condition as the claim words it, for the tick in progress
Triggered(order) ==
    /\ order.Product = productId
    /\ \/ order.Side = "BUY" /\ currentPrice >= order.StopPrice
       \/ order.Side = "SELL" /\ currentPrice <= order.StopPrice

\* C14: on a tick for product P at price c, an order is dispatched exactly in
\* the step that examines it as a confirmed entry of product P with (Buy and
\* c >= trigger) or (Sell and c <= trigger): orders of another product, orders
\* short of their trigger and provisional orders are never dispatched; and once
\* the scan of an undisturbed list is complete every confirmed order that meets
\* the condition has fired and no other has.
C14_FiresIffTriggered ==
    /\ []((tpc = "remove" /\ tj = Len(toRemove) - 1 /\ stopOrders = tickBefore) =>
             \A i \in 1..Len(stopOrders) :
                stopOrders[i].cid \in fired <=> Triggered(stopOrders[i]))
    /\ [][\A c \in ClOrdIds :
             dispatchCount'[c] # dispatchCount[c] <=>
                /\ tpc = "scan" /\ ti' = ti - 1
                /\ stopOrders[ti + 1].cid = c
                /\ Triggered(stopOrders[ti + 1])
                /\ c \notin DOMAIN tempStopOrders]_vars

\* a completed scan of an undisturbed list in which one order fired and
\* another, of the other product or short of its trigger, did not
C14_Witness ==
    /\ tpc = "remove" /\ tj = Len(toRemove) - 1 /\ stopOrders = tickBefore
    /\ fired # {}
    /\ \E i \in 1..Len(tickBefore) : tickBefore[i].cid \notin fired

C16_TerminalReportRemoves ==
    (rpc = "unlock" /\ rmsg.ok /\ rmsg.execType \in {"2", "4"}) =>
       \A i \in 1..Len(stopOrders) : stopOrders[i].PlacedOrderId # rmsg.orderId

\* C17 (as claimed): no report carrying an order's clOrdId is processed before
\* the order's provisional entry exists: whenever the Reconciler is past its
\* lookup of a report for the order just submitted, the order is provisional
\* or has been confirmed.
C17_ProvisionalBeforeReport ==
    (InReportSection /\ rmsg.ok /\ spc = "sent" /\ rmsg.clOrdId = newOrder.cid) =>
       \/ newOrder.cid \in DOMAIN tempStopOrders
       \/ \E i \in 1..Len(stopOrders) : stopOrders[i].cid = newOrder.cid

\* C18 (as claimed): every step that changes the provisional map or the
\* confirmed list is taken by a goroutine that holds the lock of the store:
\* the tick inside processStopOrders with app.stopOrdersMutex held, or the
\* report inside getExecType with stopOrdersMutex held.
C18_MutationsUnderLock ==
    [][(stopOrders' # stopOrders \/ tempStopOrders' # tempStopOrders) =>
          \/ tj' # tj /\ appStopOrdersMutex
          \/ rpc' # rpc /\ stopOrdersMutex']_vars

\* the entry of client order id c is confirmed before the step and is gone
\* or changed after it
LeavesOrAlters(c) ==
    \E i \in 1..Len(stopOrders) :
       /\ stopOrders[i].cid = c
       /\ \A k \in 1..Len(stopOrders') : stopOrders'[k] # stopOrders[i]

\* a step of the removal pass of processStopOrders
EvaluatorRemovalStep == tpc = "remove" /\ tj' = tj - 1

\* a step of the fill/canceled branch of getExecType
ReconcilerTerminalStep ==
    rpc = "terminal" /\ rpc' = "unlock" /\ rmsg.execType \in {"2", "4"}

\* C19 (as claimed): a confirmed entry is removed or altered only by the
\* removal pass that follows a fired trigger or by the Reconciler's handling
\* of a fill/canceled report.
C19_TwoRemovalPaths ==
    [][\A c \in ClOrdIds :
          LeavesOrAlters(c) => EvaluatorRemovalStep \/ ReconcilerTerminalStep]_vars

\* C19 (amended): a confirmed entry is removed or altered only by the removal
\* pass of the Trigger Evaluator, by the fill/canceled branch of the
\* Execution Reconciler, or by the operator's removal in the OCO manager;
\* submission, promotion, display and the scan leave every confirmed entry
\* as it is.
C19_ThreeRemovalPaths ==
    [][\A c \in ClOrdIds :
          LeavesOrAlters(c) =>
             \/ EvaluatorRemovalStep
             \/ ReconcilerTerminalStep
             \/ ManagerRemovalStep]_vars

\* the operator has removed one confirmed order in the OCO manager, no tick
\* has removed it, and the other order is still confirmed
C19_Witness ==
    /\ mpc = "shown"
    /\ \E c \in ClOrdIds :
          /\ removedCount[c] = 1 /\ dispatchCount[c] = 0
          /\ \A i \in 1..Len(stopOrders) : stopOrders[i].cid # c
    /\ Len(stopOrders) = 1

\* C20 (as claimed): when the cancel request of a fired order failed, the tick
\* still ends with the scan carried through to the first entry, the order's
\* market order submitted and the order no longer confirmed.
C20_CancelFailureOnlyLogged ==
    tpc = "unlock" =>
       /\ ti = -1
       /\ \A c \in cancelFailed :
             /\ \E m \in sentOrders : m.cid = c
             /\ \A i \in 1..Len(stopOrders) : stopOrders[i].cid # c

----------------------------------------------------------------------------
(* Properties of the report callback on reports it cannot place. *)

\* the report in hand after the step names no provisional and no confirmed order
UnknownReport ==
    /\ rmsg'.ok
    /\ rmsg'.clOrdId \notin DOMAIN tempStopOrders
    /\ \A i \in 1..Len(stopOrders) : stopOrders[i].PlacedOrderId # rmsg'.orderId

\* C21: each step of getExecType on a report whose clOrdId matches no
\* provisional entry and whose OrderID matches no confirmed entry leaves the
\* provisional map and the confirmed list as they are, for every execution
\* type, and goes on to the unlock without a panic.
C21_UnknownReportIgnored ==
    [][(rpc' # rpc /\ UnknownReport) =>
          /\ stopOrders' = stopOrders
          /\ tempStopOrders' = tempStopOrders
          /\ ~panicked']_vars

\* a fill report for an order the store never held has been processed to the
\* unlock while one order is confirmed and another provisional
C21_Witness ==
    /\ rpc = "unlock" /\ rmsg.ok /\ rmsg.execType = "2"
    /\ rmsg.clOrdId = ForeignClOrdId
    /\ Len(stopOrders) > 0
    /\ DOMAIN tempStopOrders # {}

----------------------------------------------------------------------------
(* Properties of the feed handling of the order-book maintainer, under     *)
(* BookSpec.                                                               *)

\* C22 (as claimed): the subscription is past its first message (live) only
\* with a Ladder: a snapshot that failed to parse left the subscription
\* waiting for its snapshot, and nothing was displayed from a missing Ladder.
C22_LiveOnlyWithLadder ==
    (wsState = "connected" /\ ~isFirstMessage) => (~OrderBook.nil /\ ~bookPanicked)

NoZeroQuantity(levels) == \A i \in 1..Len(levels) : levels[i].Qty # 0
DistinctPrices(levels) ==
    \A i, k \in 1..Len(levels) : i # k => levels[i].Px # levels[k].Px

\* C23 (as claimed): the Ladder as the snapshot and as every delta leaves it
\* holds no level of quantity 0 and no two levels of one side at one price.
C23_NoZeroNoDuplicate ==
    ~sorted.nil =>
       /\ NoZeroQuantity(sorted.Bids) /\ NoZeroQuantity(sorted.Offers)
       /\ DistinctPrices(sorted.Bids) /\ DistinctPrices(sorted.Offers)

\* C24: a delta whose channel tag is not the subscribed "l2_data" leaves the
\* Ladder exactly as ApplyUpdate found it, level for level and in order,
\* whatever updates the message carries.
C24_ForeignChannelDiscarded ==
    (~deltaResult.nil /\ deltaMsg.json /\ deltaMsg.Channel # "l2_data") =>
       deltaResult = deltaBook

\* a message of another channel has been handed to ApplyUpdate whose update
\* would have changed the Ladder under the subscribed tag
C24_Witness ==
    /\ ~deltaResult.nil /\ deltaMsg.json /\ deltaMsg.Channel = "heartbeats"
    /\ Len(deltaBook.Bids) > 0
    /\ ApplyUpdate(deltaBook, [deltaMsg EXCEPT !.Channel = "l2_data"]) # deltaBook
    /\ deltaResult = deltaBook

\* C25 (as claimed): no malformed payload is fatal: whatever the feed sends,
\* the subscription goroutine never panics and goes on to the next message.
C25_MalformedNeverFatal == ~bookPanicked

----------------------------------------------------------------------------
(* Properties of ProcessSimpleTradeInput, under CmdSpec. *)

\* the tokens of a command line
Tokens(args) == {args[i] : i \in 1..Len(args)}

\* the positional parameters of a command line as the operator means them:
\* what is left without the -p flags and the -oco flags with their prices
RECURSIVE Positional(_)
Positional(args) ==
    IF args = <<>> THEN <<>>
    ELSE IF Head(args) = "-p" THEN Positional(Tail(args))
    ELSE IF Head(args) = "-oco"
         THEN IF Len(args) >= 2 THEN Positional(Tail(Tail(args))) ELSE <<>>
    ELSE <<Head(args)>> \o Positional(Tail(args))

\* the command line in hand is one the claim lists as rejected
MustBeRejected ==
    LET pos == Positional(cmdArgs)
        isLimit == Len(pos) >= 2 /\ pos[2] = "lim"
        isMarket == Len(pos) >= 2 /\ pos[2] = "mkt" IN
    \/ Len(pos) < 4
    \/ isLimit /\ Len(pos) = 4
    \/ isLimit /\ Len(pos) >= 5 /\ ~DecimalFromString(pos[4]).ok
    \/ isLimit /\ Len(pos) >= 5 /\ ~ParseFloat(pos[5]).ok
    \/ isMarket /\ Len(pos) >= 4 /\ ~ParseFloat(pos[4]).ok
    \/ "-p" \in Tokens(cmdArgs) /\ "-oco" \in Tokens(cmdArgs)
    \/ "-oco" \in Tokens(cmdArgs) /\ isMarket
    \/ /\ isLimit /\ Len(pos) >= 5 /\ pos[3] = "b"
       /\ "ETH-USD" \in DOMAIN priceCache
       /\ DecimalFromString(pos[4]).val * 100 >
             DecimalFromString(priceCache["ETH-USD"].Bid).val * 105

\* C26 (as claimed): a command with too few parameters, a missing limit
\* price, an unparsable price or size, -p together with -oco, -oco on a market
\* order or a price the fat-finger check refuses is rejected: no order
\* message is sent, no provisional contingent order is created and the call
\* returns to the command loop.
C26_RejectedSendsNothing ==
    (cmdResult.outcome # "none" /\ "h" \notin Tokens(cmdArgs) /\ MustBeRejected) =>
       /\ cmdResult.outcome = "rejected"
       /\ cmdResult.params = NoParams
       /\ ~cmdResult.provisional

\* C27 (as claimed): for every argument vector the flag-stripping loop ends
\* without reading args[i] outside the list.
C27_FlagLoopInBounds ==
    cmdResult.outcome # "none" =>
       /\ cmdResult.outcome # "panic"
       /\ cmdResult.steps <= 2 * Len(cmdArgs)

\* C28 (as claimed): a command without flags whose order-type token is
\* neither mkt nor lim, or whose side token is neither b nor s, is rejected
\* and no order is sent.
C28_UnknownTokensRejected ==
    (/\ cmdResult.outcome # "none"
     /\ Tokens(cmdArgs) \cap {"-p", "-oco", "h"} = {}
     /\ Len(cmdArgs) >= 4
     /\ (cmdArgs[2] \notin {"mkt", "lim"} \/ cmdArgs[3] \notin {"b", "s"})) =>
       cmdResult.outcome = "rejected"

----------------------------------------------------------------------------
(* Properties of the subscription loop, under WsFairSpec. *)

\* a call of Dial returns
DialStep == wpc = "dial" /\ dials' = dials + 1

\* C29 (as claimed): once the operator's x has been read (app.disconnect is
\* set), StartWebSocket opens no further connection and eventually returns
\* to the menu, also after the connection failed and was opened again.
\* (Behaviours cut short by MaxDials are not counted against termination.)
C29_DisconnectEndsLoop ==
    /\ [][disconnect => ~DialStep]_vars
    /\ (disconnect ~> (wpc = "menu" \/ dials = MaxDials))

\* C30: when mainLoop returns an error, StartWebSocket returns at once if the
\* operator has disconnected and otherwise sleeps the fixed delay; the sleep
\* is followed by nothing but a new call of mainLoop, which dials again, and
\* that call does follow.
C30_FailureRetriesUnlessDisconnected ==
    /\ [][(wpc = "failed" /\ wpc' # "failed") =>
             IF disconnect THEN wpc' = "menu" /\ dials' = dials
             ELSE wpc' = "sleep" /\ dials' = dials]_vars
    /\ [][(wpc = "sleep" /\ wpc' # "sleep") => wpc' = "dial"]_vars
    /\ ((wpc = "sleep") ~> (wpc = "dial"))

\* a failure was retried and the connection dialled again, and a later
\* failure, with the operator disconnected, ended the loop
C30_Witness ==
    /\ wpc = "menu" /\ lastFailure = "ended" /\ disconnect
    /\ dials >= 2

----------------------------------------------------------------------------
(* Properties of a subscription across reconnects, under ResubSpec. *)

\* app.OrderBook as the snapshot handler leaves it for message msg
AfterSnapshot(msg) ==
    LET p == NewOrderBookProcessor(msg) IN
    IF p.nil THEN p ELSE displayOrderBook(p, depth)

\* C31: a subscription opened from the menu or by a reconnect takes its
\* first text message as the snapshot: the ladder it leaves is the one built
\* from that message alone, whatever ladder an earlier connection left, and
\* every later text message of the subscription is applied to the ladder in
\* hand as a delta.
C31_SnapshotReplacesLadder ==
    /\ [][(wsState = "menu" /\ wsState' = "connected") => isFirstMessage']_vars
    /\ [][(isFirstMessage /\ ~isFirstMessage') =>
             \E msg \in ShortFeedMessages : OrderBook' = AfterSnapshot(msg)]_vars
    /\ [][(wsState = "connected" /\ wsState' = "connected"
           /\ ~isFirstMessage /\ ~isFirstMessage') =>
             \E msg \in ShortFeedMessages :
                 OrderBook' = displayOrderBook(ApplyUpdate(OrderBook, msg), depth)]_vars

\* the snapshot of a new subscription has replaced the ladder that an
\* earlier connection left, and the new ladder has no level at all
C31_Witness ==
    /\ replaced /\ wsState = "connected" /\ ~bookPanicked
    /\ ~OrderBook.nil /\ OrderBook.Bids = <<>> /\ OrderBook.Offers = <<>>

\* C33 (as claimed): displaying the top n levels leaves the ladder as the
\* last sort left it: after the display the asks are still in ascending
\* price order, also when the next message is discarded before the book is
\* displayed again.
C33_DisplayLeavesLadder ==
    BookLive =>
        /\ OrderBook = sorted
        /\ \A i \in 1..(Len(OrderBook.Offers) - 1) :
               OrderBook.Offers[i].Px <= OrderBook.Offers[i + 1].Px

----------------------------------------------------------------------------
(* Properties of the confirmed list as a shared slice, under SliceSpec. *)

\* C32 (as claimed): whenever neither the append of getExecType nor the
\* removal of the OCO manager is under way, no two entries of the confirmed
\* list share a venue order id.
C32_VenueOrderIdsDistinct ==
    (appPc = "idle" /\ cutPc = "idle") =>
        \A i, j \in 1..Len(stopOrders) :
            stopOrders[i].PlacedOrderId = stopOrders[j].PlacedOrderId => i = j

----------------------------------------------------------------------------
(* Further properties of ProcessSimpleTradeInput, under CmdSpec. *)

\* the price that follows the -oco flag of a command line with one -oco flag
OcoPriceOf(args) ==
    LET i == CHOOSE i \in 1..Len(args) : args[i] = "-oco" IN
    IF i < Len(args) THEN DecimalFromString(args[i + 1]) ELSE [ok |-> FALSE, val |-> 0]

\* the command line in hand is a limit order with one -oco flag whose stop
\* price is on the wrong side of the limit price: at or below it for a buy,
\* at or above it for a sell
OcoMisplaced ==
    LET pos == Positional(cmdArgs) IN
    /\ Cardinality({i \in 1..Len(cmdArgs) : cmdArgs[i] = "-oco"}) = 1
    /\ "h" \notin Tokens(cmdArgs)
    /\ OcoPriceOf(cmdArgs).ok
    /\ Len(pos) >= 5 /\ pos[2] = "lim"
    /\ DecimalFromString(pos[4]).ok
    /\ \/ pos[3] = "b" /\ OcoPriceOf(cmdArgs).val <= DecimalFromString(pos[4]).val
       \/ pos[3] = "s" /\ OcoPriceOf(cmdArgs).val >= DecimalFromString(pos[4]).val

\* C34 (as claimed): a call of ProcessSimpleTradeInput that returns for an
\* -oco order whose stop price is at or below the limit price of a buy, or at
\* or above the limit price of a sell, has rejected it: nothing was sent and
\* no provisional entry was created.
C34_MisplacedStopRejected ==
    (cmdResult.outcome \notin {"none", "panic"} /\ OcoMisplaced) =>
       /\ cmdResult.outcome = "rejected"
       /\ cmdResult.params = NoParams
       /\ ~cmdResult.provisional

\* C35 (as claimed): when the order message of an -oco command could not be
\* sent, the call leaves no provisional contingent order for it.
C35_NoProvisionalWithoutSend ==
    (cmdResult.outcome = "sent" /\ sendErr) => ~cmdResult.provisional

----------------------------------------------------------------------------
(* Further properties of the subscription loop, under WsSpec. *)

\* C37 (as claimed): whenever StartWebSocket is not running (it has not
\* been called yet or it has returned to the market-data menu), none of the
\* goroutines that its mainLoop calls started on os.Stdin is alive.
C37_NoReaderLeftBehind ==
    wpc = "menu" => (~curScanner /\ staleScanners = 0)

----------------------------------------------------------------------------
(* Properties of start-up and the session callbacks, under LogonFairSpec. *)

\* C36 (as claimed): every call of OnLogon returns, so the callback
\* goroutine is not held up by it, and StartPriceFetchingTask is called at
\* most once and never before the first OnLogon has returned.
C36_OnLogonCompletes ==
    /\ [](pollingTasks <= 1 /\ (pollingTasks = 1 => completed >= 1))
    /\ ((opc = "send") ~> (opc = "idle"))

----------------------------------------------------------------------------
(* Properties of the price polling task, under PollSpec. *)

\* getAndCheckPrice has returned for one product
PollStep == pidx >= 1 /\ pidx' # pidx

\* C38 (as claimed): when fetchPrice returns an error for a product, the
\* price cache is as it was before, processStopOrders is not run for that
\* product, and the products behind it in the list are polled all the same;
\* a call of the validator leaves the price cache as it was.
C38_FailedFetchChangesNothing ==
    /\ [][(PollStep /\ lastErr') =>
             /\ priceCache' = priceCache
             /\ ~evaluated'
             /\ (pidx < Len(products) => pidx' = pidx + 1)]_vars
    /\ [][ffpResult' # ffpResult => priceCache' = priceCache]_vars

====
